---- MODULE Spec2Model ----
(***************************************************************************)
(* smog-trace-converter: main, the frame indexer (tracefile.c), the address *)
(* range coalescing and the bitmap rendering of backend_png (png.c) with   *)
(* its parallel frame tasks, the frame tasks of backend_parquet            *)
(* (parquet.cpp), the two passes and the report of backend_histogram       *)
(* (histogram.cpp), the page-state decoder, format_size_string (util.c),   *)
(* and the stand-alone tool smog-trace-bitmap, as state machines over the  *)
(* bytes of a trace file.                                                  *)
(***************************************************************************)
EXTENDS Integers, Sequences, FiniteSets, Bags, TLC

\* ------------------------------------------------------------------ bounds
\* size_t / uint64_t are modelled AddrBits wide: Word stands for 2^64.
AddrBits == 7
\* Addresses the coalescing specification draws VMA bounds from: 0..MaxAddr.
MaxAddr == 5
\* VMAs inserted in one run of the coalescing specification (png / histogram).
MaxInserts == 3
MaxHistInserts == 2
\* The page-state specification stores into pages 0..MaxPage, at most MaxStores
\* of them holding a nonzero state.
MaxPage == 31
MaxStores == 2
\* Frames of a trace handed to the frame indexer alone.
MaxIndexFrames == 2
\* Frames of a trace handed to the bitmap, tabular and histogram sinks.
MaxFrames == 2
\* The sizes handed to format_size_string are below (MaxSizeTop + 1) * 1024^4.
MaxSizeTop == 2

Word == 2 ^ AddrBits
SizeMax == Word - 1

\* Unsigned arithmetic of size_t: wraps modulo Word.
Add(a, b) == (a + b) % Word
Sub(a, b) == (a - b + Word) % Word

\* ------------------------------------------------------------ struct range
\* struct range { size_t lower; size_t upper; }  (inclusive bounds)
Range(l, u) == [lower |-> l, upper |-> u]

range_intersects(a, b) == a.lower <= b.upper /\ b.lower <= a.upper

\* A mutant of range_extend: the upper bound is never raised.
range_extend_lower(a, b) ==
    [lower |-> IF b.lower < a.lower THEN b.lower ELSE a.lower,
     upper |-> a.upper]

range_extend(a, b) ==
    [lower |-> IF b.lower < a.lower THEN b.lower ELSE a.lower,
     upper |-> IF b.upper > a.upper THEN b.upper ELSE a.upper]

\* memmove(ranges + j + 1, ranges + j, ...); ranges[j] = vma   (j is 1-based here)
InsertAt(rs, j, r) == SubSeq(rs, 1, j - 1) \o <<r>> \o SubSeq(rs, j, Len(rs))

\* memmove(ranges + j, ranges + j + 1, ...); num_ranges--      (j is 1-based here)
RemoveAt(rs, j) == SubSeq(rs, 1, j - 1) \o SubSeq(rs, j + 1, Len(rs))

\* The scan loop "for (j = 0; j < num_ranges; ++j)" of the coalescing insert.
\* Result: the ranges after the loop and the value of `matched`.
RECURSIVE ScanLoop(_, _, _, _)
ScanLoop(rs, vma, j, matched) ==
    IF j > Len(rs) THEN [rs |-> rs, matched |-> matched]
    ELSE IF vma.lower > rs[j].upper
        THEN ScanLoop(rs, vma, j + 1, matched)                       \* keep going
    ELSE IF range_intersects(rs[j], vma)
        THEN ScanLoop([rs EXCEPT ![j] = range_extend(rs[j], vma)],
                      vma, j + 1, matched + 1)                       \* extend match
    ELSE IF vma.upper < rs[j].lower
        THEN IF matched = 0                                          \* beyond: insert, break
             THEN [rs |-> InsertAt(rs, j, vma), matched |-> 1]
             ELSE [rs |-> rs, matched |-> matched]
    ELSE ScanLoop(rs, vma, j + 1, matched)

\* "if (!matched) ... ranges[num_ranges - 1] = vma"
AppendIfUnmatched(s, vma) == IF s.matched = 0 THEN Append(s.rs, vma) ELSE s.rs

\* The adjacency test of the merge loop: ranges[j - 1].upper == ranges[j].lower - 1
\* A mutant of the adjacency test: the "- 1" is forgotten.
AdjacentOffByOne(a, b) == a.upper = b.lower
Adjacent(a, b) == a.upper = Sub(b.lower, 1)

\* The merge loop "for (j = 1; j < num_ranges; ++j)": on a merge the entry j is
\* removed and the same position is checked again (j--, then ++j).
RECURSIVE MergeLoop(_, _)
MergeLoop(rs, j) ==
    IF j > Len(rs) THEN rs
    ELSE IF range_intersects(rs[j - 1], rs[j]) \/ Adjacent(rs[j - 1], rs[j])
        THEN MergeLoop(RemoveAt([rs EXCEPT ![j - 1] = range_extend(rs[j - 1], rs[j])], j), j)
    ELSE MergeLoop(rs, j + 1)

\* A mutant of the insert: the merge loop is left out.
CoalesceInsertNoMerge(rs, vma) == AppendIfUnmatched(ScanLoop(rs, vma, 1, 0), vma)

\* One coalescing insert of backend_png: scan, append, merge.
CoalesceInsert(rs, vma) ==
    MergeLoop(AppendIfUnmatched(ScanLoop(rs, vma, 1, 0), vma), 2)

\* struct range vma = { vma_start, vma_end - 1 };
VmaRange(start, end) == Range(start, Sub(end, 1))

\* -------------------------------------------------------- coordinate scan
\* The pixel-offset scan of write_frame: the position of address `start` in
\* the compacted coordinate space.
RECURSIVE PixelOffsetLoop(_, _, _, _)
PixelOffsetLoop(rs, start, j, off) ==
    IF j > Len(rs) THEN off
    ELSE IF start > rs[j].upper
        THEN PixelOffsetLoop(rs, start, j + 1,
                             Add(off, Add(Sub(rs[j].upper, rs[j].lower), 1)))
    ELSE IF start > rs[j].lower
        THEN PixelOffsetLoop(rs, start, j + 1, Add(off, Sub(start, rs[j].lower)))
    ELSE off

PixelOffset(rs, start) == PixelOffsetLoop(rs, start, 1, 0)

\* total_vmem += ranges[i].upper - ranges[i].lower + 1
RECURSIVE TotalVmemLoop(_, _, _)
TotalVmemLoop(rs, i, total) ==
    IF i > Len(rs) THEN total
    ELSE TotalVmemLoop(rs, i + 1, Add(total, Add(Sub(rs[i].upper, rs[i].lower), 1)))

\* A mutant of total_vmem: the last address of the last range is not counted.
TotalVmemShort(rs) == Sub(TotalVmemLoop(rs, 1, 0), 1)

TotalVmem(rs) == TotalVmemLoop(rs, 1, 0)

\* ------------------------------------------------------------ byte buffer
ZeroBytes(n) == [i \in 1..n |-> 0]

\* Little-endian fields of the trace.
U32LE(v) == <<v % 256, (v \div 256) % 256, (v \div 65536) % 256, (v \div 16777216) % 256>>
U64LE(v) == U32LE(v) \o <<0, 0, 0, 0>>

\* *(uint32_t*)(buffer + index), for values below 2^31.
U32Val(b) == b[1] + 256 * b[2] + 65536 * b[3] + 16777216 * b[4]

\* *(uint64_t*)(buffer + index): an address, AddrBits wide in the model.
U64Val(b) == (b[1] + 256 * b[2]) % Word

\* What a read of n bytes at offset off of the mapped file gives. A read that
\* is not wholly inside the buffer is undefined: it faults, or yields whatever
\* lies behind the mapping (zero fill, or other bytes).
Garbage(n) == {ZeroBytes(n), [i \in 1..n |-> IF i = 1 THEN 1 ELSE 0]}

InBounds(len, off, n) == off + n <= len

Read(buf, len, off, n) ==
    IF InBounds(len, off, n)
    THEN {[ok |-> TRUE, bytes |-> SubSeq(buf, off + 1, off + n)]}
    ELSE {[ok |-> TRUE, bytes |-> g] : g \in Garbage(n)} \cup {[ok |-> FALSE, bytes |-> <<>>]}

\* ------------------------------------------------------------------ state
VARIABLES
    \* the coalescing pass
    backend,    \* the backend that runs (arguments.output_format in main): "png",
                \* "histogram", "parquet", "png-frames", "bitmap", "unknown"
    ranges,     \* backend_png: struct range *ranges (with num_ranges = Len)
    named,      \* backend_histogram: std::map<std::string, std::vector<range>>
    inserted,   \* the VMAs handed to the coalescing insert so far (a bag)
    aborted,    \* an assert() of class range has failed
    \* the page-state decoder
    words,      \* a packed page bitmap: the bytes of its 32-bit words
    stored,     \* the page states stored into `words`, by page index
    \* the trace file
    trace,      \* the frames the producer wrote and their layout (the input)
    tracefile,  \* struct smog_tracefile: buffer, length, frame_offsets, num_frames
    \* tracefile_index_frames
    ipc,        \* where the indexer is: "idle", "loop", "vmas", "done", "crashed"
    index,      \* size_t index
    offsets,    \* off_t *offsets (with n = Len)
    vmaI,       \* the counter i of the VMA loop
    numVmas,    \* uint32_t num_vmas
    result,     \* the value returned (-1: none yet)
    oobAt,      \* the offset of the first read not inside the buffer (-1: none)
    \* the bitmap sink: backend_png, and main of smog-trace-bitmap
    ppc,        \* where the sink is: "idle", "agg", "vmas", "tasks", "done",
                \* "failed" (returned 1), "aborted" (abort()), "crashed" (fault)
    agg,        \* aggregation pass: frame counter i, index, VMA counter, num_vmas
    xres,       \* size_t xres (the image width; width of write_frame)
    yres,       \* size_t yres
    pixels,     \* unsigned char *pixels: xres * yres * 3 bytes
    task,       \* per frame i: the position of write_frame(pixels + i * xres * 3, ...)
    rendered,   \* per frame i: the row as the write_frame call of frame i left it
    written,    \* the pixel stores made: frame, pixel, decoded value, RGB stored
    image,      \* the rows handed to png_write_image, top to bottom
    pres,       \* the value the sink returned (-1: none yet)
    \* main and the outputs of the other backends
    openres,    \* what tracefile_open returned to main (-1: not called yet)
    exit,       \* the value main returned (-1: none yet)
    outfile,    \* arguments.output_file, the path handed to the backend (characters)
    tables,     \* backend_parquet: per frame, the output file and the rows streamed to it
    histogram,  \* backend_histogram: std::map<std::string, std::vector<histogram_data>>
    report,     \* backend_histogram: std::ofstream outfile(path) and the lines written
    \* util
    sizestr     \* format_size_string: the argument, the loop's result, what is returned

coalesceVars == <<backend, ranges, named, inserted, aborted>>
pageVars == <<words, stored>>
utilVars == <<sizestr>>

traceVars == <<trace, tracefile>>
indexVars == <<ipc, index, offsets, vmaI, numVmas, result, oobAt>>

renderVars == <<ppc, agg, xres, yres, pixels, task, rendered, written, image, pres>>
outVars == <<openres, exit, outfile, tables, histogram, report>>

vars == <<coalesceVars, pageVars, utilVars, outVars, traceVars, indexVars, renderVars>>

NotCoalesce == <<pageVars, utilVars, outVars, traceVars, indexVars, renderVars>>
NotPages == <<coalesceVars, utilVars, outVars, traceVars, indexVars, renderVars>>
NotIndex == <<coalesceVars, pageVars, utilVars, outVars, renderVars>>

IdleCoalesce ==
    /\ backend = "none"
    /\ ranges = <<>>
    /\ named = <<>>
    /\ inserted = EmptyBag
    /\ aborted = FALSE

IdlePages ==
    /\ words = <<>>
    /\ stored = <<>>

IdleUtil ==
    sizestr = [pc |-> "idle", s |-> <<>>, unit |-> 0, value |-> <<>>, suffix |-> "", ret |-> "none"]

IdleTrace ==
    /\ trace = [layout |-> "none", frames |-> <<>>]
    /\ tracefile = [buffer |-> <<>>, length |-> 0, frame_offsets |-> <<>>, num_frames |-> 0]

IdleIndex ==
    /\ ipc = "idle"
    /\ index = 0
    /\ offsets = <<>>
    /\ vmaI = 0
    /\ numVmas = 0
    /\ result = -1
    /\ oobAt = -1

IdleRender ==
    /\ ppc = "idle"
    /\ agg = [i |-> 0, index |-> 0, vma |-> 0, num_vmas |-> 0]
    /\ xres = 0
    /\ yres = 0
    /\ pixels = <<>>
    /\ task = <<>>
    /\ rendered = <<>>
    /\ written = {}
    /\ image = <<>>
    /\ pres = -1

IdleOut ==
    /\ openres = -1
    /\ exit = -1
    /\ outfile = <<>>
    /\ tables = <<>>
    /\ histogram = <<>>
    /\ report = [opened |-> FALSE, lines |-> <<>>]

\* ------------------------------------------------- coalescing specification
HistNames == {"A", "B"}

\* The VMAs of a trace: start <= end (end exclusive), start = end has no pages.
Vmas == {v \in [start : 0..MaxAddr, end : 0..MaxAddr] : v.start <= v.end}

InitCoalesce ==
    /\ backend \in {"png", "histogram"}
    /\ ranges = <<>>
    /\ named = <<>>
    /\ inserted = EmptyBag
    /\ aborted = FALSE
    /\ IdlePages /\ IdleUtil /\ IdleTrace /\ IdleIndex /\ IdleRender /\ IdleOut

\* backend_png, one iteration of the VMA loop of the aggregation pass.
PngInsertVma(v) ==
    /\ backend = "png"
    /\ BagCardinality(inserted) < MaxInserts
    /\ ranges' = CoalesceInsert(ranges, VmaRange(v.start, v.end))
    /\ inserted' = inserted (+) SetToBag({[name |-> "", start |-> v.start, end |-> v.end]})
    /\ UNCHANGED <<backend, named, aborted, NotCoalesce>>

\* ranges[name], creating the empty vector when the name is new.
NamedRanges(m, name) == IF name \in DOMAIN m THEN m[name] ELSE <<>>

SetNamed(m, name, rs) == [n \in DOMAIN m \cup {name} |-> IF n = name THEN rs ELSE m[n]]

\* A mutant of the per-name insert: one index is shared by all names.
HistInsertShared(m, name, vma) ==
    [n \in DOMAIN m \cup {name} |-> CoalesceInsert(NamedRanges(m, n), vma)]

\* backend_histogram, the insert of one named VMA into ranges[name]: the
\* whole-address-space range of a (0, 0) VMA is skipped.
HistInsert(m, name, vma) ==
    IF vma.lower = 0 /\ vma.upper = SizeMax
    THEN SetNamed(m, name, NamedRanges(m, name))
    ELSE SetNamed(m, name, CoalesceInsert(NamedRanges(m, name), vma))

\* backend_histogram, one iteration of the VMA loop of the aggregation pass
\* for a named VMA. class range's constructor asserts upper >= lower.
HistInsertVma(name, v) ==
    /\ backend = "histogram"
    /\ ~aborted
    /\ BagCardinality(inserted) < MaxHistInserts
    /\ LET vma == VmaRange(v.start, v.end) IN
       IF vma.upper >= vma.lower
       THEN /\ named' = HistInsert(named, name, vma)
            /\ inserted' = inserted (+) SetToBag({[name |-> name, start |-> v.start,
                                                   end |-> v.end]})
            /\ UNCHANGED aborted
       ELSE /\ named' = SetNamed(named, name, NamedRanges(named, name))
            /\ aborted' = TRUE
            /\ UNCHANGED inserted
    /\ UNCHANGED <<backend, ranges, NotCoalesce>>

NextCoalesce ==
    \/ \E v \in Vmas : PngInsertVma(v)
    \/ \E n \in HistNames, v \in Vmas : HistInsertVma(n, v)

SpecCoalesce == InitCoalesce /\ [][NextCoalesce]_vars

\* --------------------------------------------------------- claim C1
\* Every inserted VMA has at least one page (start < end).
AllNonEmpty == \A v \in BagToSet(inserted) : v.start < v.end

\* Two neighbouring entries are mergeable: they intersect or are exactly adjacent.
Mergeable(a, b) == range_intersects(a, b) \/ a.upper + 1 = b.lower

Normalised(rs) ==
    \A i \in 2..Len(rs) : /\ rs[i - 1].lower < rs[i].lower
                          /\ ~Mergeable(rs[i - 1], rs[i])

\* C1: after every coalescing insert of VMAs with start < end, by backend_png
\* and by backend_histogram per name, the range sequence is strictly ascending
\* by lower and no two neighbouring entries intersect or are adjacent; after
\* [0,1] and [2,3] (VMAs (0,2) and (2,4)) the index is the single range [0,3].
C1_Normalised ==
    AllNonEmpty =>
        /\ Normalised(ranges)
        /\ \A n \in DOMAIN named : Normalised(named[n])
        /\ \A n \in DOMAIN named \cup {""} :
             (inserted = SetToBag({[name |-> n, start |-> 0, end |-> 2],
                                   [name |-> n, start |-> 2, end |-> 4]}))
                => (IF n = "" THEN ranges ELSE named[n]) = <<Range(0, 3)>>

\* Witness: adjacent VMAs (0,2) and (2,4) have been merged into [0,3] in png,
\* or a histogram name holds two separate ranges after two inserts.
C1_Witness ==
    \/ /\ backend = "png"
       /\ inserted = SetToBag({[name |-> "", start |-> 0, end |-> 2],
                               [name |-> "", start |-> 2, end |-> 4]})
       /\ ranges = <<Range(0, 3)>>
    \/ /\ backend = "histogram"
       /\ \E n \in DOMAIN named : Len(named[n]) = 2 /\ AllNonEmpty

\* --------------------------------------------------------- claim C2
RECURSIVE BagPerms(_)
BagPerms(b) ==
    IF b = EmptyBag THEN {<<>>}
    ELSE UNION {{<<e>> \o s : s \in BagPerms(b (-) SetToBag({e}))} : e \in BagToSet(b)}

RECURSIVE InsertAll(_, _)
InsertAll(rs, seq) ==
    IF seq = <<>> THEN rs
    ELSE InsertAll(CoalesceInsert(rs, VmaRange(seq[1].start, seq[1].end)), Tail(seq))

\* The inserted VMAs are ranges with lower <= upper.
AllProper ==
    \A v \in BagToSet(inserted) :
        VmaRange(v.start, v.end).lower <= VmaRange(v.start, v.end).upper

\* C2: the coalescing insert is order-independent: every permutation of the
\* inserted multiset of ranges (lower <= upper), inserted into an empty index,
\* ends in the range sequence the run has built; for [0,1], [3,4], [1,3]
\* (VMAs (0,2), (3,5), (1,4)) that is the single range [0,4].
C2_OrderIndependent ==
    (backend = "png" /\ AllProper) =>
        /\ \A p \in BagPerms(inserted) : InsertAll(<<>>, p) = ranges
        /\ (inserted = SetToBag({[name |-> "", start |-> 0, end |-> 2],
                                 [name |-> "", start |-> 3, end |-> 5],
                                 [name |-> "", start |-> 1, end |-> 4]}))
             => ranges = <<Range(0, 4)>>

\* Witness: the three ranges of the example have been inserted (in some order).
C2_Witness ==
    /\ backend = "png"
    /\ inserted = SetToBag({[name |-> "", start |-> 0, end |-> 2],
                            [name |-> "", start |-> 3, end |-> 5],
                            [name |-> "", start |-> 1, end |-> 4]})
    /\ ranges = <<Range(0, 4)>>

\* --------------------------------------------------------- claim C6
\* The addresses contained in a range of the index.
Covered(rs) == {a \in 0..SizeMax : \E i \in 1..Len(rs) : rs[i].lower <= a /\ a <= rs[i].upper}

\* C6: in the index built by backend_png the pixel-offset scan is strictly
\* increasing in the address within each range, and maps the covered addresses
\* one-to-one onto [0, total_vmem), total_vmem being the sum of the range sizes
\* as backend_png computes it.
C6_CoordinateBijection ==
    backend = "png" =>
        /\ \A i \in 1..Len(ranges) :
             \A a, b \in ranges[i].lower..ranges[i].upper :
                 a < b => PixelOffset(ranges, a) < PixelOffset(ranges, b)
        /\ \A a, b \in Covered(ranges) :
             a # b => PixelOffset(ranges, a) # PixelOffset(ranges, b)
        /\ {PixelOffset(ranges, a) : a \in Covered(ranges)} = 0..(TotalVmem(ranges) - 1)

\* ------------------------------------------------------ page-state decoder
\* (word >> shift) & 0x3 for a uint32_t given by its four little-endian bytes.
ShiftAnd3(w, shift) ==
    LET k == shift \div 8
        lo == w[k + 1]
        hi == IF k + 2 <= 4 THEN w[k + 2] ELSE 0
    IN ((lo + 256 * hi) \div (2 ^ (shift % 8))) % 4

\* The 32-bit word page_buffer[i] of a byte buffer.
WordAt(page_buffer, i) == SubSeq(page_buffer, 4 * i + 1, 4 * i + 4)

\* A mutant of the decoder: the factor 2 of the shift is forgotten.
PageValueShiftByIndex(page_buffer, j) == ShiftAnd3(WordAt(page_buffer, j \div 16), j % 16)

\* int value = (page_buffer[j / 16] >> ((j % 16) * 2)) & 0x3;
PageValue(page_buffer, j) == ShiftAnd3(WordAt(page_buffer, j \div 16), (j % 16) * 2)

\* The producer's packing: state v of page p goes to bits [(p mod 16) * 2,
\* (p mod 16) * 2 + 1] of word p div 16; the other bits are kept.
StorePage(bytes, p, v) ==
    LET bit == (p % 16) * 2
        k == 4 * (p \div 16) + bit \div 8 + 1
        unit == 2 ^ (bit % 8)
        old == (bytes[k] \div unit) % 4
    IN [bytes EXCEPT ![k] = bytes[k] - old * unit + v * unit]

InitPages ==
    /\ words = ZeroBytes(4 * (MaxPage \div 16 + 1))
    /\ stored = [p \in 0..MaxPage |-> 0]
    /\ IdleUtil /\ IdleCoalesce /\ IdleTrace /\ IdleIndex /\ IdleRender /\ IdleOut

StorePageState(p, v) ==
    /\ Cardinality({q \in 0..MaxPage : stored[q] # 0} \cup {p}) <= MaxStores
    /\ words' = StorePage(words, p, v)
    /\ stored' = [stored EXCEPT ![p] = v]
    /\ UNCHANGED NotPages

NextPages == \E p \in 0..MaxPage, v \in 0..3 : StorePageState(p, v)

SpecPages == InitPages /\ [][NextPages]_vars

\* --------------------------------------------------------- claim C7
\* C7: page-state decoding round-trips: whatever states have been stored for
\* the pages of a packed word array, the decoder expression returns for every
\* page exactly the state stored for it, independently of the other pages.
C7_PageRoundTrip == \A p \in DOMAIN stored : PageValue(words, p) = stored[p]

\* Witness: pages 15 and 16, on both sides of the word boundary, hold the
\* different states 3 and 2 and decode to them.
C7_Witness ==
    /\ DOMAIN stored = 0..MaxPage
    /\ stored[15] = 3 /\ stored[16] = 2
    /\ PageValue(words, 15) = 3 /\ PageValue(words, 16) = 2

\* -------------------------------------------------------------- wire format
\* The page bitmap of a VMA: ceil(pages * 2 / 32) words, 16 pages per word.
RECURSIVE PackLoop(_, _, _)
PackLoop(bytes, states, p) ==
    IF p >= Len(states) THEN bytes
    ELSE PackLoop(StorePage(bytes, p, states[p + 1]), states, p + 1)

PackStates(states) == PackLoop(ZeroBytes(4 * ((Len(states) * 2 + 31) \div 32)), states, 0)

\* One VMA record. "canonical": start, end, name_len, name, bitmap.
\* "legacy": start, end, page count, bitmap.
WireVma(layout, v) ==
    U64LE(v.start) \o U64LE(v.end)
       \o (IF layout = "canonical" THEN U32LE(Len(v.name)) \o v.name
                                   ELSE U32LE(Len(v.states)))
       \o PackStates(v.states)

RECURSIVE WireVmas(_, _)
WireVmas(layout, vs) ==
    IF vs = <<>> THEN <<>> ELSE WireVma(layout, Head(vs)) \o WireVmas(layout, Tail(vs))

\* One frame: seconds, microseconds, VMA count, the VMAs.
WireFrame(layout, f) ==
    U32LE(f.sec) \o U32LE(f.usec) \o U32LE(Len(f.vmas)) \o WireVmas(layout, f.vmas)

RECURSIVE WireTrace(_, _)
WireTrace(layout, fs) ==
    IF fs = <<>> THEN <<>> ELSE WireFrame(layout, Head(fs)) \o WireTrace(layout, Tail(fs))

\* The byte offset at which frame i (from 0) of the trace starts.
FrameStart(layout, fs, i) == Len(WireTrace(layout, SubSeq(fs, 1, i)))

Vma(start, end, name, states) ==
    [start |-> start, end |-> end, name |-> name, states |-> states]

\* "name-01" and its terminating NUL: name_len = 8.
Name8 == <<110, 97, 109, 101, 45, 48, 49, 0>>

\* A frame without VMAs, the frame of the specification's example (one unnamed
\* VMA [100,102) with page states 1, 3), and a frame of a named and an unnamed VMA.
FrameEmpty == [sec |-> 1, usec |-> 0, vmas |-> <<>>]
FrameOne == [sec |-> 2, usec |-> 5, vmas |-> <<Vma(100, 102, <<>>, <<1, 3>>)>>]
FrameTwo == [sec |-> 3, usec |-> 7,
             vmas |-> <<Vma(2, 5, Name8, <<0, 1, 2>>), Vma(40, 42, <<>>, <<3, 2>>)>>]

IndexFrames == {FrameEmpty, FrameOne, FrameTwo}

SeqsUpTo(S, n) == UNION {[1..k -> S] : k \in 0..n}

\* ------------------------------------------------- tracefile_index_frames
\* size_t words = (pages * 2 + (32 - 1)) / 32 with uint32_t pages: the sum is
\* computed modulo 2^32. pages is given by its four little-endian bytes.
IndexWords(b) ==
    LET lo == b[1] + 256 * b[2]
        hi == b[3] + 256 * b[4]
        lo2 == lo * 2 + 31
        hi2 == (hi * 2 + lo2 \div 65536) % 65536
    IN hi2 * 2048 + (lo2 % 65536) \div 32

\* tracefile_open: the file is mapped, frame_offsets = NULL, num_frames = 0.
\* The file holds the first `len` bytes of the trace as the producer wrote it.
Opened(layout, fs, len) ==
    /\ trace = [layout |-> layout, frames |-> fs]
    /\ tracefile = [buffer |-> SubSeq(WireTrace(layout, fs), 1, len), length |-> len,
                    frame_offsets |-> <<>>, num_frames |-> 0]

IndexEntry ==
    /\ ipc = "loop"
    /\ index = 0
    /\ offsets = <<>>
    /\ vmaI = 0
    /\ numVmas = 0
    /\ result = -1
    /\ oobAt = -1

InitIndex ==
    /\ \E layout \in {"canonical", "legacy"}, fs \in SeqsUpTo(IndexFrames, MaxIndexFrames) :
         \E len \in 0..Len(WireTrace(layout, fs)) : Opened(layout, fs, len)
    /\ IndexEntry
    /\ IdleCoalesce /\ IdlePages /\ IdleUtil /\ IdleRender /\ IdleOut

NoteRead(off, n) == IF oobAt = -1 /\ ~InBounds(tracefile.length, off, n) THEN off ELSE oobAt

\* One frame of the outer loop: record the offset, skip the timestamp, read
\* the number of VMAs.
IndexFrameStart ==
    /\ ipc = "loop"
    /\ index < tracefile.length
    /\ offsets' = Append(offsets, index)
    /\ oobAt' = NoteRead(index + 8, 4)
    /\ \E r \in Read(tracefile.buffer, tracefile.length, index + 8, 4) :
         IF r.ok
         THEN /\ numVmas' = U32Val(r.bytes)
              /\ index' = index + 12
              /\ vmaI' = 0
              /\ ipc' = IF U32Val(r.bytes) > 0 THEN "vmas" ELSE "loop"
         ELSE /\ ipc' = "crashed"
              /\ UNCHANGED <<numVmas, index, vmaI>>
    /\ UNCHANGED <<result, traceVars, NotIndex>>

\* One VMA of the inner loop: skip start and end, read the page count, skip
\* the words of the bitmap.
IndexVma ==
    /\ ipc = "vmas"
    /\ vmaI < numVmas
    /\ oobAt' = NoteRead(index + 16, 4)
    /\ \E r \in Read(tracefile.buffer, tracefile.length, index + 16, 4) :
         IF r.ok
         THEN /\ index' = index + 16 + 4 + IndexWords(r.bytes) * 4
              /\ vmaI' = vmaI + 1
              /\ ipc' = IF vmaI + 1 < numVmas THEN "vmas" ELSE "loop"
         ELSE /\ ipc' = "crashed"
              /\ UNCHANGED <<index, vmaI>>
    /\ UNCHANGED <<offsets, numVmas, result, traceVars, NotIndex>>

\* realloc fails: the offsets are freed and 1 is returned.
IndexReallocFail ==
    /\ ipc = "loop"
    /\ index < tracefile.length
    /\ offsets' = <<>>
    /\ result' = 1
    /\ ipc' = "done"
    /\ UNCHANGED <<index, vmaI, numVmas, oobAt, traceVars, NotIndex>>

\* A mutant of the loop exit: the loop is left only behind the end of the
\* buffer (index > length), not at it.
IndexReturnPastEnd ==
    /\ ipc = "loop"
    /\ index > tracefile.length
    /\ tracefile' = [tracefile EXCEPT !.frame_offsets = offsets, !.num_frames = Len(offsets)]
    /\ result' = 0
    /\ ipc' = "done"
    /\ UNCHANGED <<index, offsets, vmaI, numVmas, oobAt, trace, NotIndex>>

\* The loop ends: the offsets are published and 0 is returned.
IndexReturn ==
    /\ ipc = "loop"
    /\ index >= tracefile.length
    /\ tracefile' = [tracefile EXCEPT !.frame_offsets = offsets, !.num_frames = Len(offsets)]
    /\ result' = 0
    /\ ipc' = "done"
    /\ UNCHANGED <<index, offsets, vmaI, numVmas, oobAt, trace, NotIndex>>

NextIndex == IndexFrameStart \/ IndexVma \/ IndexReallocFail \/ IndexReturn

SpecIndex == InitIndex /\ [][NextIndex]_vars

\* tracefile_index_frames runs in one thread that is never suspended for
\* ever: a step of the loop that can be taken is taken.
SpecIndexFair == InitIndex /\ [][NextIndex]_vars /\ WF_vars(NextIndex)

\* --------------------------------------------------------- claim C3
\* C3: no read of tracefile_index_frames (the VMA count, the per-VMA size
\* field) touches a byte at or beyond tracefile->length, for every buffer
\* content and every length.
C3_NoReadPastEnd == oobAt = -1

\* --------------------------------------------------------- claim C4
\* The buffer is the whole trace in the canonical wire format.
WholeCanonical ==
    /\ trace.layout = "canonical"
    /\ tracefile.length = Len(WireTrace("canonical", trace.frames))

\* C4: on a buffer that is the concatenation of k well-formed frames in the
\* canonical wire format the indexer does not fault, and when it returns 0 it
\* has published num_frames = k and, for every i < k, frame_offsets[i] = the
\* sum of the byte sizes of the frames before frame i.
C4_IndexCanonical ==
    WholeCanonical =>
        /\ ipc # "crashed"
        /\ (ipc = "done" /\ result = 0) =>
              /\ tracefile.num_frames = Len(trace.frames)
              /\ tracefile.frame_offsets =
                    [i \in 1..Len(trace.frames) |-> FrameStart("canonical", trace.frames, i - 1)]

\* --------------------------------------------------------- claim C5
\* The end of the buffer is strictly inside a frame of the trace.
Truncated ==
    \A i \in 0..Len(trace.frames) :
        tracefile.length # FrameStart(trace.layout, trace.frames, i)

\* C5: when the buffer ends strictly inside a frame, the indexer returns a
\* failure and publishes no frame index: a partial final frame is never
\* indexed or dropped silently.
C5_TruncatedFails ==
    (ipc = "done" /\ Truncated) => (result # 0 /\ tracefile.num_frames = 0)

\* ------------------------------------------------------- the bitmap sink
\* Two more frames of a named and an unnamed VMA, and a frame whose only VMA
\* has no pages and starts at address 0.
FrameThree == [sec |-> 4, usec |-> 1,
               vmas |-> <<Vma(4, 7, Name8, <<3, 3, 1>>), Vma(41, 43, <<>>, <<0, 2>>)>>]
FrameZero == [sec |-> 5, usec |-> 2, vmas |-> <<Vma(0, 0, <<>>, <<>>)>>]

\* The traces rendered: the single frame of the specification's example, and
\* up to MaxFrames frames drawn from FrameTwo, FrameThree and FrameZero.
PngTraces == SeqsUpTo({FrameTwo, FrameThree, FrameZero}, MaxFrames) \cup {<<FrameOne>>}

\* size_t words = (pages * 2 + (32 - 1)) / 32 with size_t pages.
Words(pages) == ((pages * 2 + 31) % Word) \div 32

\* The three stores of write_frame for one decoded page value.
PixelColourZeroBlack(value) ==
    <<IF value >= 3 THEN 255 ELSE 0,
      IF value >= 1 /\ value <= 2 THEN 255 ELSE 0,
      IF value >= 1 /\ value <= 1 THEN 255 ELSE 0>>

PixelColour(value) ==
    <<IF value >= 3 THEN 255 ELSE 0,
      IF value >= 1 /\ value <= 2 THEN 255 ELSE 0,
      IF value >= 0 /\ value <= 1 THEN 255 ELSE 0>>

\* page_buffer[k]; g is what a word that is not inside the buffer yields.
PageWord(buf, len, pb, k, g) ==
    IF InBounds(len, pb + 4 * k, 4) THEN SubSeq(buf, pb + 4 * k + 1, pb + 4 * k + 4) ELSE g

\* The page loop of write_frame: pixels is the row of the frame, the bitmap
\* starts at offset pb. Gives the row after the loop and the stores made.
\* Page j is decoded from page_buffer[j / 16] and stored at pixel
\* pixel_offset + j when that is below width; the last page stored at a pixel
\* p is the largest j < pages with pixel_offset + j = p in size_t arithmetic.
PageLoop(row, width, buf, len, pb, pages, pixel_offset, g, frame) ==
    LET value(j) == PageValue(PageWord(buf, len, pb, j \div 16, g), j % 16)
        first(p) == Sub(p, pixel_offset)
        last(p) == first(p) + Word * ((pages - 1 - first(p)) \div Word)
    IN [row |-> [b \in 1..Len(row) |->
                    LET p == (b - 1) \div 3 IN
                    IF p < width /\ first(p) < pages
                    THEN PixelColour(value(last(p)))[((b - 1) % 3) + 1]
                    ELSE row[b]],
        written |-> {[frame |-> frame, pixel |-> Add(pixel_offset, j), value |-> value(j),
                      rgb |-> PixelColour(value(j))] :
                        j \in {k \in 0..pages - 1 : Add(pixel_offset, k) < width}}]

\* Some word of the bitmap of `pages` pages at offset pb is not inside the buffer.
BitmapOutside(len, pb, pages) ==
    \E j \in 0..pages - 1 : ~InBounds(len, pb + 4 * (j \div 16), 4)

\* One iteration of the VMA loop of write_frame (png.c) at offset off of the
\* buffer, for the reads h (start, end), l (name length) and the bytes g of a
\* bitmap word outside the buffer (<<>>: the read faults).
WriteVma(row, rs, width, buf, len, off, h, l, g, frame) ==
    IF ~h.ok \/ ~l.ok
    THEN [ok |-> FALSE, row |-> row, size |-> 0, written |-> {}]
    ELSE LET start == U64Val(SubSeq(h.bytes, 1, 8))
             end == U64Val(SubSeq(h.bytes, 9, 16))
             pages == Sub(end, start)
             length == U32Val(l.bytes)
             pb == off + 20 + length
         IN IF BitmapOutside(len, pb, pages) /\ g = <<>>
            THEN [ok |-> FALSE, row |-> row, size |-> 0, written |-> {}]
            ELSE LET res == PageLoop(row, width, buf, len, pb, pages,
                                     PixelOffset(rs, start), g, frame)
                 IN [ok |-> TRUE, row |-> res.row, size |-> 20 + length + Words(pages) * 4,
                     written |-> res.written]

\* A mutant of the row pointer: every task is handed the first row.
RowBaseShared(i, width) == 0

\* pixels + i * xres * 3: the offset in pixels of the row handed to the
\* write_frame call of frame i.
RowBase(i, width) == i * width * 3

\* The row of frame i inside pixels, and pixels with that row replaced.
RowOf(pix, width, i) == SubSeq(pix, RowBase(i, width) + 1, RowBase(i, width) + width * 3)

WithRow(pix, width, i, row) ==
    [b \in 1..Len(pix) |->
        IF b > RowBase(i, width) /\ b <= RowBase(i, width) + width * 3
        THEN row[b - RowBase(i, width)] ELSE pix[b]]

\* for (i = 0; i < yres; ++i) rows[yres - i - 1] = pixels + (yres - 1 - i) * xres * 3;
RECURSIVE RowsLoop(_, _, _, _)
RowsLoop(rows, i, h, w) ==
    IF i >= h THEN rows
    ELSE RowsLoop([rows EXCEPT ![h - i - 1] = (h - 1 - i) * w * 3], i + 1, h, w)

\* png_write_image(png, rows): row r of the image is the xres * 3 bytes at rows[r].
WriteImage(pix, rows, h, w) == [r \in 1..h |-> SubSeq(pix, rows[r - 1] + 1, rows[r - 1] + w * 3)]

TaskEntry == [pc |-> "ready", index |-> 0, vma |-> 0, num_vmas |-> 0]

\* main: the trace is indexed, the output format is OUTPUT_PNG.
MainCallBackend ==
    /\ backend = "png"
    /\ ipc = "done" /\ result = 0
    /\ ppc = "idle"
    /\ ppc' = "agg"
    /\ agg' = [i |-> 0, index |-> 0, vma |-> 0, num_vmas |-> 0]
    /\ UNCHANGED <<coalesceVars, pageVars, utilVars, outVars, traceVars, indexVars,
                   xres, yres, pixels, task, rendered, written, image, pres>>

\* backend_png, aggregation pass: one frame of the outer loop up to the
\* number of VMAs.
PngAggFrame ==
    /\ ppc = "agg"
    /\ agg.i < tracefile.num_frames
    /\ LET base == tracefile.frame_offsets[agg.i + 1] IN
       \E r \in Read(tracefile.buffer, tracefile.length, base + 8, 4) :
         IF r.ok
         THEN LET n == U32Val(r.bytes) IN
              /\ agg' = [i |-> IF n = 0 THEN agg.i + 1 ELSE agg.i, index |-> base + 12,
                         vma |-> 0, num_vmas |-> n]
              /\ ppc' = IF n = 0 THEN "agg" ELSE "vmas"
         ELSE /\ ppc' = "crashed"
              /\ UNCHANGED agg
    /\ UNCHANGED <<coalesceVars, pageVars, utilVars, outVars, traceVars, indexVars,
                   xres, yres, pixels, task, rendered, written, image, pres>>

\* backend_png, aggregation pass: one VMA of the inner loop. The VMA is
\* inserted into ranges, the name and the bitmap are skipped.
PngAggVma ==
    /\ ppc = "vmas"
    /\ \E h \in Read(tracefile.buffer, tracefile.length, agg.index, 16),
          l \in Read(tracefile.buffer, tracefile.length, agg.index + 16, 4) :
         IF h.ok /\ l.ok
         THEN LET vma_start == U64Val(SubSeq(h.bytes, 1, 8))
                  vma_end == U64Val(SubSeq(h.bytes, 9, 16))
                  pages == Sub(vma_end, vma_start)
                  last == agg.vma + 1 >= agg.num_vmas
              IN /\ ranges' = CoalesceInsert(ranges, VmaRange(vma_start, vma_end))
                 /\ inserted' = inserted (+) SetToBag({[name |-> "", start |-> vma_start,
                                                        end |-> vma_end]})
                 /\ agg' = [i |-> IF last THEN agg.i + 1 ELSE agg.i,
                            index |-> agg.index + 20 + U32Val(l.bytes) + Words(pages) * 4,
                            vma |-> agg.vma + 1, num_vmas |-> agg.num_vmas]
                 /\ ppc' = IF last THEN "agg" ELSE "vmas"
         ELSE /\ ppc' = "crashed"
              /\ UNCHANGED <<ranges, inserted, agg>>
    /\ UNCHANGED <<backend, named, aborted, pageVars, utilVars, outVars, traceVars, indexVars,
                   xres, yres, pixels, task, rendered, written, image, pres>>

\* backend_png: the VMA needs a new entry of ranges (insert or append) and
\* realloc fails; 1 is returned.
PngReallocFail ==
    /\ ppc = "vmas"
    /\ \E h \in Read(tracefile.buffer, tracefile.length, agg.index, 16) :
         /\ h.ok
         /\ LET vma == VmaRange(U64Val(SubSeq(h.bytes, 1, 8)), U64Val(SubSeq(h.bytes, 9, 16)))
            IN Len(AppendIfUnmatched(ScanLoop(ranges, vma, 1, 0), vma)) > Len(ranges)
    /\ ppc' = "failed"
    /\ pres' = 1
    /\ UNCHANGED <<coalesceVars, pageVars, utilVars, outVars, traceVars, indexVars,
                   agg, xres, yres, pixels, task, rendered, written, image>>

\* backend_png after the aggregation pass: total_vmem, the resolution, the
\* output file and the zeroed pixel buffer. libpng rejects an image without
\* columns or rows (png_set_IHDR: png_error, no error handler: abort()).
PngPrepare ==
    /\ ppc = "agg"
    /\ agg.i >= tracefile.num_frames
    /\ xres' = TotalVmem(ranges)
    /\ yres' = tracefile.num_frames
    /\ IF xres' = 0 \/ yres' = 0
       THEN /\ ppc' = "aborted"
            /\ UNCHANGED <<pixels, task, rendered>>
       ELSE /\ ppc' = "tasks"
            /\ pixels' = ZeroBytes(xres' * yres' * 3)
            /\ task' = [i \in 0..yres' - 1 |-> TaskEntry]
            /\ rendered' = [i \in 0..yres' - 1 |-> ZeroBytes(xres' * 3)]
    /\ UNCHANGED <<coalesceVars, pageVars, utilVars, outVars, traceVars, indexVars, agg, written, image, pres>>

\* backend_png: the png structures, the output file or the pixel buffer
\* cannot be set up; 1 is returned.
PngPrepareFail ==
    /\ ppc = "agg"
    /\ agg.i >= tracefile.num_frames
    /\ ppc' = "failed"
    /\ pres' = 1
    /\ UNCHANGED <<coalesceVars, pageVars, utilVars, outVars, traceVars, indexVars,
                   agg, xres, yres, pixels, task, rendered, written, image>>

\* The task of frame i of the parallel loop enters write_frame and reads the
\* number of VMAs.
TaskStart(i) ==
    /\ backend = "png"
    /\ ppc = "tasks"
    /\ task[i].pc = "ready"
    /\ \E r \in Read(tracefile.buffer, tracefile.length, tracefile.frame_offsets[i + 1] + 8, 4) :
         IF r.ok
         THEN /\ task' = [task EXCEPT ![i] = [pc |-> IF U32Val(r.bytes) = 0 THEN "done" ELSE "vmas",
                                              index |-> 12, vma |-> 0,
                                              num_vmas |-> U32Val(r.bytes)]]
              /\ UNCHANGED ppc
         ELSE /\ ppc' = "crashed"
              /\ UNCHANGED task
    /\ UNCHANGED <<coalesceVars, pageVars, utilVars, outVars, traceVars, indexVars,
                   agg, xres, yres, pixels, rendered, written, image, pres>>

\* The task of frame i renders one VMA into pixels + i * xres * 3.
TaskVma(i) ==
    /\ backend = "png"
    /\ ppc = "tasks"
    /\ task[i].pc = "vmas"
    /\ LET off == tracefile.frame_offsets[i + 1] + task[i].index IN
       \E h \in Read(tracefile.buffer, tracefile.length, off, 16),
          l \in Read(tracefile.buffer, tracefile.length, off + 16, 4),
          g \in Garbage(4) \cup {<<>>} :
         LET o == WriteVma(RowOf(pixels, xres, i), ranges, xres, tracefile.buffer,
                           tracefile.length, off, h, l, g, i)
             own == WriteVma(rendered[i], ranges, xres, tracefile.buffer,
                             tracefile.length, off, h, l, g, i)
         IN IF o.ok
            THEN /\ pixels' = WithRow(pixels, xres, i, o.row)
                 /\ rendered' = [rendered EXCEPT ![i] = own.row]
                 /\ written' = written \cup o.written
                 /\ task' = [task EXCEPT ![i] =
                               [pc |-> IF task[i].vma + 1 >= task[i].num_vmas
                                       THEN "done" ELSE "vmas",
                                index |-> task[i].index + o.size, vma |-> task[i].vma + 1,
                                num_vmas |-> task[i].num_vmas]]
                 /\ UNCHANGED ppc
            ELSE /\ ppc' = "crashed"
                 /\ UNCHANGED <<pixels, rendered, written, task>>
    /\ UNCHANGED <<coalesceVars, pageVars, utilVars, outVars, traceVars, indexVars,
                   agg, xres, yres, image, pres>>

AllTasksDone == \A i \in DOMAIN task : task[i].pc = "done"

\* backend_png after the parallel loop: the row pointers, png_write_image,
\* return 0.
PngRows ==
    /\ backend = "png"
    /\ ppc = "tasks"
    /\ AllTasksDone
    /\ image' = WriteImage(pixels, RowsLoop([r \in 0..yres - 1 |-> 0], 0, yres, xres), yres, xres)
    /\ pres' = 0
    /\ ppc' = "done"
    /\ UNCHANGED <<coalesceVars, pageVars, utilVars, outVars, traceVars, indexVars,
                   agg, xres, yres, pixels, task, rendered, written>>

\* backend_png: png_malloc of the row pointers fails; 1 is returned.
PngRowsFail ==
    /\ backend = "png"
    /\ ppc = "tasks"
    /\ AllTasksDone
    /\ pres' = 1
    /\ ppc' = "failed"
    /\ UNCHANGED <<coalesceVars, pageVars, utilVars, outVars, traceVars, indexVars,
                   agg, xres, yres, pixels, task, rendered, written, image>>

\* ------------------------------------------------------ smog-trace-bitmap
\* class range: operator&, operator| and the tests of the insert loop.
BitmapAnd(a, b) ==
    LET l == IF b.lower > a.lower THEN b.lower ELSE a.lower
        r == IF b.upper < a.upper THEN b.upper ELSE a.upper
    IN IF r < l THEN Range(0, 0) ELSE Range(l, r)

BitmapOr(a, b) ==
    Range(IF b.lower < a.lower THEN b.lower ELSE a.lower,
          IF b.upper > a.upper THEN b.upper ELSE a.upper)

\* main: the insert loop over active_ranges.
RECURSIVE BitmapScanLoop(_, _, _, _)
BitmapScanLoop(rs, r, j, matched) ==
    IF j > Len(rs) THEN [rs |-> rs, matched |-> matched]
    ELSE IF rs[j].upper < r.lower
        THEN BitmapScanLoop(rs, r, j + 1, matched)                   \* not there yet
    ELSE LET hit == BitmapAnd(rs[j], r) # Range(0, 0)
             rs1 == IF hit THEN [rs EXCEPT ![j] = BitmapOr(rs[j], r)] ELSE rs
             m1 == IF hit THEN matched + 1 ELSE matched
         IN IF rs1[j].lower > r.upper
            THEN IF m1 = 0                                           \* beyond: insert, break
                 THEN [rs |-> InsertAt(rs1, j, r), matched |-> 1]
                 ELSE [rs |-> rs1, matched |-> m1]
            ELSE BitmapScanLoop(rs1, r, j + 1, m1)

\* main: the merge loop over active_ranges.
RECURSIVE BitmapMergeLoop(_, _)
BitmapMergeLoop(rs, j) ==
    IF j > Len(rs) THEN rs
    ELSE IF BitmapAnd(rs[j - 1], rs[j]) # Range(0, 0) \/ rs[j - 1].upper = Sub(rs[j].lower, 1)
        THEN BitmapMergeLoop(RemoveAt([rs EXCEPT ![j - 1] = BitmapOr(rs[j - 1], rs[j])], j), j)
    ELSE BitmapMergeLoop(rs, j + 1)

BitmapInsert(rs, r) ==
    LET s == BitmapScanLoop(rs, r, 1, 0)
    IN BitmapMergeLoop(IF s.matched = 0 THEN Append(s.rs, r) ELSE s.rs, 2)

\* main: one frame of the parse loop up to the number of VMAs.
BitmapParseFrame ==
    /\ backend = "bitmap"
    /\ ipc = "loop"
    /\ index < tracefile.length
    /\ offsets' = Append(offsets, index)
    /\ oobAt' = NoteRead(index + 8, 4)
    /\ \E r \in Read(tracefile.buffer, tracefile.length, index + 8, 4) :
         IF r.ok
         THEN /\ numVmas' = U32Val(r.bytes)
              /\ index' = index + 12
              /\ vmaI' = 0
              /\ ipc' = IF U32Val(r.bytes) > 0 THEN "vmas" ELSE "loop"
         ELSE /\ ipc' = "crashed"
              /\ UNCHANGED <<numVmas, index, vmaI>>
    /\ UNCHANGED <<result, traceVars, coalesceVars, pageVars, utilVars, outVars, renderVars>>

\* main: one VMA of the parse loop. The constructor of range asserts
\* upper >= lower; the range is inserted into active_ranges, the page count
\* is read and the bitmap skipped.
BitmapParseVma ==
    /\ backend = "bitmap"
    /\ ipc = "vmas"
    /\ vmaI < numVmas
    /\ oobAt' = IF NoteRead(index, 16) # -1 THEN NoteRead(index, 16) ELSE NoteRead(index + 16, 4)
    /\ \E h \in Read(tracefile.buffer, tracefile.length, index, 16),
          l \in Read(tracefile.buffer, tracefile.length, index + 16, 4) :
         IF h.ok /\ l.ok
         THEN LET start == U64Val(SubSeq(h.bytes, 1, 8))
                  end == U64Val(SubSeq(h.bytes, 9, 16))
              IN IF Sub(end, 1) >= start
                 THEN /\ ranges' = BitmapInsert(ranges, Range(start, Sub(end, 1)))
                      /\ inserted' = inserted (+) SetToBag({[name |-> "", start |-> start,
                                                             end |-> end]})
                      /\ index' = index + 16 + 4 + IndexWords(l.bytes) * 4
                      /\ vmaI' = vmaI + 1
                      /\ ipc' = IF vmaI + 1 < numVmas THEN "vmas" ELSE "loop"
                      /\ UNCHANGED aborted
                 ELSE /\ aborted' = TRUE
                      /\ ipc' = "aborted"
                      /\ UNCHANGED <<ranges, inserted, index, vmaI>>
         ELSE /\ ipc' = "crashed"
              /\ UNCHANGED <<ranges, inserted, aborted, index, vmaI>>
    /\ UNCHANGED <<backend, named, offsets, numVmas, result, traceVars, pageVars, utilVars, outVars, renderVars>>

\* What malloc'ed memory holds before it is written.
Uninitialised == {0, 255}

\* main after the parse loop: total_vmem, the resolution, the output file
\* and the pixel buffer, which malloc leaves uninitialised.
BitmapPrepare ==
    /\ backend = "bitmap"
    /\ ipc = "loop"
    /\ index >= tracefile.length
    /\ ipc' = "done"
    /\ xres' = TotalVmem(ranges)
    /\ yres' = Len(offsets)
    /\ IF xres' = 0 \/ yres' = 0
       THEN /\ ppc' = "aborted"
            /\ UNCHANGED <<pixels, task, rendered>>
       ELSE /\ ppc' = "tasks"
            /\ \E fill \in Uninitialised :
                 /\ pixels' = [b \in 1..xres' * yres' * 3 |-> fill]
                 /\ rendered' = [i \in 0..yres' - 1 |-> [b \in 1..xres' * 3 |-> fill]]
            /\ task' = [i \in 0..yres' - 1 |-> TaskEntry]
    /\ UNCHANGED <<coalesceVars, pageVars, utilVars, outVars, traceVars, index, offsets, vmaI, numVmas, result,
                   oobAt, agg, written, image, pres>>

\* main: the png structures, the output file or the pixel buffer cannot be
\* set up; 1 is returned.
BitmapPrepareFail ==
    /\ backend = "bitmap"
    /\ ipc = "loop"
    /\ index >= tracefile.length
    /\ ipc' = "done"
    /\ ppc' = "failed"
    /\ pres' = 1
    /\ UNCHANGED <<coalesceVars, pageVars, utilVars, outVars, traceVars, index, offsets, vmaI, numVmas, result,
                   oobAt, agg, xres, yres, pixels, task, rendered, written, image>>

\* The frame the sequential write loop of main is at.
BitmapCurrent(i) == i \in DOMAIN task /\ \A k \in DOMAIN task : k < i => task[k].pc = "done"

\* main, the write loop: write_frame of frame i reads the number of VMAs.
BitmapFrameStart(i) ==
    /\ backend = "bitmap"
    /\ ppc = "tasks"
    /\ BitmapCurrent(i)
    /\ task[i].pc = "ready"
    /\ \E r \in Read(tracefile.buffer, tracefile.length, offsets[i + 1] + 8, 4) :
         IF r.ok
         THEN /\ task' = [task EXCEPT ![i] = [pc |-> IF U32Val(r.bytes) = 0 THEN "done" ELSE "vmas",
                                              index |-> 12, vma |-> 0,
                                              num_vmas |-> U32Val(r.bytes)]]
              /\ UNCHANGED ppc
         ELSE /\ ppc' = "crashed"
              /\ UNCHANGED task
    /\ UNCHANGED <<coalesceVars, pageVars, utilVars, outVars, traceVars, indexVars,
                   agg, xres, yres, pixels, rendered, written, image, pres>>

\* One iteration of the VMA loop of write_frame (smog-trace-bitmap): the
\* field after start and end is the page count, the bitmap follows it.
BitmapWriteVma(row, rs, width, buf, len, off, h, l, g, frame) ==
    IF ~h.ok \/ ~l.ok
    THEN [ok |-> FALSE, row |-> row, size |-> 0, written |-> {}]
    ELSE LET start == U64Val(SubSeq(h.bytes, 1, 8))
             pages == U32Val(l.bytes)
             pb == off + 20
         IN IF BitmapOutside(len, pb, pages) /\ g = <<>>
            THEN [ok |-> FALSE, row |-> row, size |-> 0, written |-> {}]
            ELSE LET res == PageLoop(row, width, buf, len, pb, pages,
                                     PixelOffset(rs, start), g, frame)
                 IN [ok |-> TRUE, row |-> res.row, size |-> 20 + IndexWords(l.bytes) * 4,
                     written |-> res.written]

\* main, the write loop: write_frame of frame i renders one VMA.
BitmapFrameVma(i) ==
    /\ backend = "bitmap"
    /\ ppc = "tasks"
    /\ BitmapCurrent(i)
    /\ task[i].pc = "vmas"
    /\ LET off == offsets[i + 1] + task[i].index IN
       \E h \in Read(tracefile.buffer, tracefile.length, off, 16),
          l \in Read(tracefile.buffer, tracefile.length, off + 16, 4),
          g \in Garbage(4) \cup {<<>>} :
         LET o == BitmapWriteVma(RowOf(pixels, xres, i), ranges, xres, tracefile.buffer,
                                 tracefile.length, off, h, l, g, i)
             own == BitmapWriteVma(rendered[i], ranges, xres, tracefile.buffer,
                                   tracefile.length, off, h, l, g, i)
         IN IF o.ok
            THEN /\ pixels' = WithRow(pixels, xres, i, o.row)
                 /\ rendered' = [rendered EXCEPT ![i] = own.row]
                 /\ written' = written \cup o.written
                 /\ task' = [task EXCEPT ![i] =
                               [pc |-> IF task[i].vma + 1 >= task[i].num_vmas
                                       THEN "done" ELSE "vmas",
                                index |-> task[i].index + o.size, vma |-> task[i].vma + 1,
                                num_vmas |-> task[i].num_vmas]]
                 /\ UNCHANGED ppc
            ELSE /\ ppc' = "crashed"
                 /\ UNCHANGED <<pixels, rendered, written, task>>
    /\ UNCHANGED <<coalesceVars, pageVars, utilVars, outVars, traceVars, indexVars,
                   agg, xres, yres, image, pres>>

\* for (i = 0; i < yres; ++i) rows[i] = pixels + (yres - 1 - i) * xres * 3;
RECURSIVE BitmapRowsLoop(_, _, _, _)
BitmapRowsLoop(rows, i, h, w) ==
    IF i >= h THEN rows
    ELSE BitmapRowsLoop([rows EXCEPT ![i] = (h - 1 - i) * w * 3], i + 1, h, w)

\* main after the write loop: the row pointers, png_write_image, return 0.
BitmapRows ==
    /\ backend = "bitmap"
    /\ ppc = "tasks"
    /\ AllTasksDone
    /\ image' = WriteImage(pixels, BitmapRowsLoop([r \in 0..yres - 1 |-> 0], 0, yres, xres),
                           yres, xres)
    /\ pres' = 0
    /\ ppc' = "done"
    /\ UNCHANGED <<coalesceVars, pageVars, utilVars, outVars, traceVars, indexVars,
                   agg, xres, yres, pixels, task, rendered, written>>

\* ------------------------------------------------- bitmap sink specification
\* smog-trace-converter with the png backend reads the canonical layout,
\* smog-trace-bitmap the layout with a page count.
LayoutOf(b) == IF b = "png" THEN "canonical" ELSE "legacy"

\* The trace file is mapped: tracefile_open, and open, fstat and mmap of
\* smog-trace-bitmap, have succeeded.
InitSink ==
    /\ \E b \in {"png", "bitmap"}, fs \in PngTraces :
         /\ backend = b
         /\ Opened(LayoutOf(b), fs, Len(WireTrace(LayoutOf(b), fs)))
    /\ ranges = <<>>
    /\ named = <<>>
    /\ inserted = EmptyBag
    /\ aborted = FALSE
    /\ IndexEntry
    /\ IdlePages /\ IdleUtil /\ IdleRender /\ IdleOut

NextSink ==
    \/ (backend = "png" /\ NextIndex)
    \/ MainCallBackend
    \/ PngAggFrame
    \/ PngAggVma
    \/ PngReallocFail
    \/ PngPrepare
    \/ PngPrepareFail
    \/ \E i \in DOMAIN task : TaskStart(i)
    \/ \E i \in DOMAIN task : TaskVma(i)
    \/ PngRows
    \/ PngRowsFail
    \/ BitmapParseFrame
    \/ BitmapParseVma
    \/ BitmapPrepare
    \/ BitmapPrepareFail
    \/ \E i \in DOMAIN task : BitmapFrameStart(i)
    \/ \E i \in DOMAIN task : BitmapFrameVma(i)
    \/ BitmapRows

SpecSink == InitSink /\ [][NextSink]_vars

\* --------------------------------------------------------- claim C8
\* The colour of a page state in the image.
StateColour(v) ==
    CASE v = 0 -> <<0, 0, 255>>
      [] v = 1 -> <<0, 255, 255>>
      [] v = 2 -> <<0, 255, 0>>
      [] v = 3 -> <<255, 0, 0>>

\* The pixel at column c of a row.
PixelAt(row, c) == SubSeq(row, 3 * c + 1, 3 * c + 3)

\* Row f of the image shows every page of every VMA of frame f in the colour
\* of its state, at the coordinate of its address.
ShowsFrame(row, f) ==
    \A k \in 1..Len(f.vmas) :
        \A j \in 0..(f.vmas[k].end - f.vmas[k].start - 1) :
            LET c == PixelOffset(ranges, f.vmas[k].start + j) IN
            /\ 3 * c + 3 <= Len(row)
            /\ PixelAt(row, c) = StateColour(f.vmas[k].states[j + 1])

\* C8: the image backend_png hands to the PNG writer has one row per frame of
\* the trace and total_size(index) columns, and row f shows every page of
\* every VMA of frame f in the colour of its state at the coordinate of its
\* address; the trace of one frame with one VMA [100,102) and page states
\* 1, 3 gives one row of the two pixels (0,255,255), (255,0,0).
C8_EndToEnd ==
    (backend = "png" /\ ppc = "done") =>
        /\ Len(image) = Len(trace.frames)
        /\ \A f \in 1..Len(image) : Len(image[f]) = 3 * TotalVmem(ranges)
        /\ \A f \in 1..Len(trace.frames) :
              f <= Len(image) => ShowsFrame(image[f], trace.frames[f])
        /\ trace.frames = <<FrameOne>> => image = << <<0, 255, 255, 255, 0, 0>> >>

\* --------------------------------------------------------- claim C9
\* C9: every pixel store of the bitmap sink writes the colour of the decoded
\* page state, 0 -> (0,0,255), 1 -> (0,255,255), 2 -> (0,255,0),
\* 3 -> (255,0,0); no decoded page is written as black, and the pixel buffer
\* holds at a stored pixel a colour that was stored there.
C9_ColourMapping ==
    \A w \in written :
        /\ w.value \in 0..3
        /\ w.rgb = StateColour(w.value)
        /\ w.rgb # <<0, 0, 0>>
        /\ PixelAt(RowOf(pixels, xres, w.frame), w.pixel) \in
              {u.rgb : u \in {x \in written : x.frame = w.frame /\ x.pixel = w.pixel}}

\* backend_png has returned 0 and pages of all four states were stored.
C9_Witness ==
    /\ backend = "png"
    /\ ppc = "done"
    /\ \A v \in 0..3 : \E w \in written : w.value = v

\* --------------------------------------------------------- claim C10
\* C10: when the bitmap sink has handed the image to the PNG writer, row r of
\* the image is the row that the write_frame call of frame r rendered, for
\* every r < num_frames, in every interleaving of the frame tasks.
C10_RowOrder ==
    ppc = "done" => \A r \in 0..yres - 1 : image[r + 1] = rendered[r]

\* --------------------------------------------------------- claim C11
\* The offsets in pixels of the bytes stored by the task of frame i: the
\* three colour bytes at pixel * 3 of the row handed to its write_frame call.
BytesWrittenBy(i) ==
    {RowBase(i, xres) + w.pixel * 3 + c : w \in {x \in written : x.frame = i}, c \in 0..2}

\* C11: in the parallel pass of backend_png every byte stored by the task of
\* frame i lies in [i * width * 3, (i + 1) * width * 3), no byte is stored by
\* the tasks of two distinct frames, and the image handed to the PNG writer
\* holds in row i what the task of frame i rendered on its own, whatever the
\* interleaving of the tasks was.
C11_DisjointRows ==
    backend = "png" =>
        /\ \A i \in DOMAIN task :
              \A b \in BytesWrittenBy(i) : i * xres * 3 <= b /\ b < (i + 1) * xres * 3
        /\ \A i, k \in DOMAIN task : i # k => BytesWrittenBy(i) \cap BytesWrittenBy(k) = {}
        /\ \A i \in DOMAIN task : RowOf(pixels, xres, i) = rendered[i]
        /\ ppc = "done" => \A r \in 0..yres - 1 : image[r + 1] = rendered[r]

\* The tasks of two frames have both stored pixels, their rows differ, and
\* backend_png has returned 0.
C11_Witness ==
    /\ backend = "png"
    /\ ppc = "done"
    /\ yres >= 2
    /\ BytesWrittenBy(0) # {}
    /\ BytesWrittenBy(1) # {}
    /\ image[1] # image[2]


\* --------------------------------------------------------- claim C20
\* C20: every range stored in the address range index has upper >= lower after
\* any sequence of insertions, zero-page VMAs (start = end) included: such a
\* VMA puts neither a range with upper < lower nor the wrapped range
\* [0, SIZE_MAX] of start = end = 0 into the index built by backend_png (nor
\* into a per-name index of backend_histogram).
C20_UpperAtLeastLower ==
    /\ \A i \in 1..Len(ranges) :
          /\ ranges[i].upper >= ranges[i].lower
          /\ ~(ranges[i].lower = 0 /\ ranges[i].upper = SizeMax)
    /\ \A n \in DOMAIN named : \A i \in 1..Len(named[n]) :
          /\ named[n][i].upper >= named[n][i].lower
          /\ ~(named[n][i].lower = 0 /\ named[n][i].upper = SizeMax)


\* --------------------------------------------------------- claim C19
\* The shape of a published frame index: as many offsets as num_frames, the
\* first is 0 when the buffer is not empty, strictly increasing, all below the
\* buffer length, none for an empty buffer.
IndexShape ==
    /\ tracefile.num_frames = Len(tracefile.frame_offsets)
    /\ tracefile.length > 0 => (tracefile.num_frames > 0 /\ tracefile.frame_offsets[1] = 0)
    /\ \A i \in 2..tracefile.num_frames :
          tracefile.frame_offsets[i - 1] < tracefile.frame_offsets[i]
    /\ \A i \in 1..tracefile.num_frames : tracefile.frame_offsets[i] < tracefile.length
    /\ tracefile.length = 0 => tracefile.num_frames = 0

\* Frame i of the index is frame i of the trace, from its first byte to its last.
IndexExtents ==
    \A i \in 1..tracefile.num_frames :
        /\ i <= Len(trace.frames)
        /\ tracefile.frame_offsets[i] = FrameStart(trace.layout, trace.frames, i - 1)
        /\ (IF i < tracefile.num_frames THEN tracefile.frame_offsets[i + 1]
                                        ELSE tracefile.length)
              = FrameStart(trace.layout, trace.frames, i)

\* C19: after a successful tracefile_index_frames num_frames is the number of
\* recorded offsets, frame_offsets[0] = 0 for a non-empty buffer, the offsets
\* are strictly increasing and below the buffer length, an empty buffer gives
\* num_frames = 0, and frame i's record occupies exactly
\* [frame_offsets[i], frame_offsets[i+1]) (up to the buffer length for the
\* last frame).
C19_FrameIndex ==
    (ipc = "done" /\ result = 0) => (IndexShape /\ IndexExtents)


\* ------------------------------------------------------- the tabular sink
\* strstr(path, "%s") != NULL.
HasPattern(path) == \E k \in 1..Len(path) - 1 : path[k] = "%" /\ path[k + 1] = "s"

Digit(d) == <<"0", "1", "2", "3", "4", "5", "6", "7", "8", "9">>[d + 1]

\* The decimal digits of n, at least `width` of them (zero padded).
RECURSIVE Decimal(_, _)
Decimal(n, width) ==
    IF n < 10 /\ width <= 1 THEN <<Digit(n)>>
    ELSE Append(Decimal(n \div 10, width - 1), Digit(n % 10))

\* The first n elements of s.
Truncate(s, n) == SubSeq(s, 1, IF Len(s) < n THEN Len(s) ELSE n)


\* write_frame: strftime(timestr, 20, "%F_%T", &tm) of localtime_r(&sec)
\* followed by snprintf(timestr + len, 8, ".%06u", usec), which stores at most
\* seven characters. The zone is UTC and sec lies in January 1970.
TimeStr(sec, usec) ==
    <<"1", "9", "7", "0", "-", "0", "1", "-">> \o Decimal(sec \div 86400 + 1, 2)
        \o <<"_">> \o Decimal((sec \div 3600) % 24, 2)
        \o <<":">> \o Decimal((sec \div 60) % 60, 2)
        \o <<":">> \o Decimal(sec % 60, 2)
        \o Truncate(<<".">> \o Decimal(usec, 6), 7)

\* snprintf(.., outfile, timestr): the pattern with its "%s" replaced by the
\* time string.
RECURSIVE Format(_, _)
Format(fmt, arg) ==
    IF fmt = <<>> THEN <<>>
    ELSE IF Len(fmt) >= 2 /\ fmt[1] = "%" /\ fmt[2] = "s"
        THEN arg \o Format(SubSeq(fmt, 3, Len(fmt)), arg)
    ELSE <<fmt[1]>> \o Format(Tail(fmt), arg)

\* (buffer[j / 16] >> s) & 0x1 with char buffer[]: the byte is promoted to int
\* (char is signed: a byte above 127 is negative) and shifted arithmetically.
CharBit(byte, s) ==
    LET c == IF byte >= 128 THEN byte - 256 ELSE byte
    IN IF s >= 8 THEN (IF c < 0 THEN 1 ELSE 0) ELSE (c \div (2 ^ s)) % 2

\* The row write_frame streams for page j of a VMA, where byte is
\* buffer[j / 16] read from the start of the frame.
ParquetRow(start, j, byte) ==
    [pageno |-> Add(start, j),
     is_present |-> CharBit(byte, (j % 16) * 2) = 1,
     is_dirty |-> CharBit(byte, (j % 16) * 2 + 1) = 1]

\* The page loop of one VMA: the rows of pages j..pages-1. g is what a byte
\* that is not inside the mapped file yields.
RECURSIVE ParquetRows(_, _, _, _, _, _, _)
ParquetRows(buf, len, base, start, pages, j, g) ==
    IF j >= pages THEN <<>>
    ELSE LET off == base + j \div 16
             byte == IF InBounds(len, off, 1) THEN buf[off + 1] ELSE g
         IN <<ParquetRow(start, j, byte)>> \o ParquetRows(buf, len, base, start, pages, j + 1, g)

\* backend_parquet: the pattern is checked; the parallel loop starts one task
\* per indexed frame.
MainCallParquet ==
    /\ backend = "parquet"
    /\ exit = -1
    /\ ipc = "done" /\ result = 0
    /\ ppc = "idle"
    /\ IF HasPattern(outfile)
       THEN /\ ppc' = "tasks"
            /\ task' = [i \in 0..tracefile.num_frames - 1 |-> TaskEntry]
            /\ tables' = [i \in 0..tracefile.num_frames - 1 |->
                             [opened |-> FALSE, path |-> <<>>, alloc |-> 0, stored |-> 0,
                              warned |-> 0, rows |-> <<>>]]
            /\ UNCHANGED pres
       ELSE /\ ppc' = "failed"
            /\ pres' = 1
            /\ UNCHANGED <<task, tables>>
    /\ UNCHANGED <<coalesceVars, pageVars, utilVars, traceVars, indexVars, openres, exit, outfile,
                   histogram, report, agg, xres, yres, pixels, rendered, written, image>>

\* write_frame of frame i up to the number of VMAs: the time stamp, the path
\* (malloc(n) for n + 1 stored bytes), the output stream. A failed malloc
\* returns without a file; a failed Open throws out of the parallel region
\* (std::terminate); the byte stored behind the allocation is undefined
\* behaviour (nothing happens, or the heap is found corrupted).
ParquetStart(i) ==
    /\ backend = "parquet"
    /\ ppc = "tasks"
    /\ task[i].pc = "ready"
    /\ LET base == tracefile.frame_offsets[i + 1] IN
       \E rs \in Read(tracefile.buffer, tracefile.length, base, 4),
          ru \in Read(tracefile.buffer, tracefile.length, base + 4, 4),
          rn \in Read(tracefile.buffer, tracefile.length, base + 8, 4),
          outcome \in {"opened", "nomem", "throw", "corrupt"} :
         IF ~(rs.ok /\ ru.ok /\ rn.ok)
         THEN /\ ppc' = "crashed"
              /\ UNCHANGED <<task, tables>>
         ELSE LET path == Format(outfile, TimeStr(U32Val(rs.bytes), U32Val(ru.bytes)))
                  n == U32Val(rn.bytes)
              IN CASE outcome = "nomem" ->
                        /\ task' = [task EXCEPT ![i].pc = "done"]
                        /\ UNCHANGED <<ppc, tables>>
                   [] outcome = "throw" ->
                        /\ ppc' = "aborted"
                        /\ tables' = [tables EXCEPT ![i].path = path, ![i].alloc = Len(path),
                                                    ![i].stored = Len(path) + 1]
                        /\ UNCHANGED task
                   [] outcome = "corrupt" ->
                        /\ ppc' = "crashed"
                        /\ tables' = [tables EXCEPT ![i].path = path, ![i].alloc = Len(path),
                                                    ![i].stored = Len(path) + 1]
                        /\ UNCHANGED task
                   [] outcome = "opened" ->
                        /\ tables' = [tables EXCEPT ![i].path = path, ![i].alloc = Len(path),
                                                    ![i].stored = Len(path) + 1,
                                                    ![i].opened = TRUE]
                        /\ task' = [task EXCEPT ![i] = [pc |-> IF n = 0 THEN "done" ELSE "vmas",
                                                        index |-> 12, vma |-> 0, num_vmas |-> n]]
                        /\ UNCHANGED ppc
    /\ UNCHANGED <<coalesceVars, pageVars, utilVars, traceVars, indexVars, openres, exit, outfile,
                   histogram, report, agg, xres, yres, pixels, rendered, written, image, pres>>

\* write_frame of frame i, one iteration of the VMA loop: start, end, the page
\* count, the warning, one row per counted page, the words skipped. A row the
\* stream writer cannot write throws; a page loop that leaves the mapped file
\* faults or reads what lies behind it.
ParquetVma(i) ==
    /\ backend = "parquet"
    /\ ppc = "tasks"
    /\ task[i].pc = "vmas"
    /\ LET base == tracefile.frame_offsets[i + 1]
           at == base + task[i].index
       IN \E r1 \in Read(tracefile.buffer, tracefile.length, at, 8),
             r2 \in Read(tracefile.buffer, tracefile.length, at + 8, 8),
             r3 \in Read(tracefile.buffer, tracefile.length, at + 16, 4),
             g \in {0, 1}, throw \in BOOLEAN :
            IF ~(r1.ok /\ r2.ok /\ r3.ok)
            THEN /\ ppc' = "crashed"
                 /\ UNCHANGED <<task, tables>>
            ELSE LET start == U64Val(r1.bytes)
                     end == U64Val(r2.bytes)
                     pages == U32Val(r3.bytes)
                     rows == ParquetRows(tracefile.buffer, tracefile.length, base, start,
                                         pages, 0, g)
                 IN IF throw /\ pages > 0
                    THEN /\ ppc' = IF InBounds(tracefile.length, base + (pages - 1) \div 16, 1)
                                   THEN "aborted" ELSE "crashed"
                         /\ UNCHANGED <<task, tables>>
                    ELSE /\ tables' = [tables EXCEPT
                                ![i].rows = @ \o rows,
                                ![i].warned = IF end # Add(start, pages) THEN @ + 1 ELSE @]
                         /\ task' = [task EXCEPT
                                ![i].index = @ + 20 + IndexWords(r3.bytes) * 4,
                                ![i].vma = @ + 1,
                                ![i].pc = IF task[i].vma + 1 < task[i].num_vmas
                                          THEN "vmas" ELSE "done"]
                         /\ UNCHANGED ppc
    /\ UNCHANGED <<coalesceVars, pageVars, utilVars, traceVars, indexVars, openres, exit, outfile,
                   histogram, report, agg, xres, yres, pixels, rendered, written, image, pres>>

\* backend_parquet after the parallel loop: return 0.
ParquetReturn ==
    /\ backend = "parquet"
    /\ ppc = "tasks"
    /\ AllTasksDone
    /\ pres' = 0
    /\ ppc' = "done"
    /\ UNCHANGED <<coalesceVars, pageVars, utilVars, traceVars, indexVars, outVars,
                   agg, xres, yres, pixels, task, rendered, written, image>>


\* ---------------------------------------------------------------- main
\* The state of struct smog_tracefile before tracefile_open and after
\* tracefile_close.
Closed == [buffer |-> <<>>, length |-> 0, frame_offsets |-> <<>>, num_frames |-> 0]

\* The file as the producer wrote it.
FileBytes == WireTrace(trace.layout, trace.frames)

\* main calls tracefile_open: open, fstat or mmap fail and 1 is returned, or
\* the file is mapped. mmap of an empty file fails.
MainOpen ==
    /\ openres = -1
    /\ exit = -1
    /\ \E ok \in BOOLEAN :
         IF ok /\ Len(FileBytes) > 0
         THEN /\ openres' = 0
              /\ tracefile' = [Closed EXCEPT !.buffer = FileBytes, !.length = Len(FileBytes)]
         ELSE /\ openres' = 1
              /\ UNCHANGED tracefile
    /\ UNCHANGED <<coalesceVars, pageVars, utilVars, indexVars, renderVars, trace,
                   exit, outfile, tables, histogram, report>>

\* main: tracefile_open has failed; return 1.
MainOpenFailed ==
    /\ openres = 1
    /\ exit = -1
    /\ exit' = 1
    /\ UNCHANGED <<coalesceVars, pageVars, utilVars, traceVars, indexVars, renderVars,
                   openres, outfile, tables, histogram, report>>

\* main calls tracefile_index_frames.
MainIndex ==
    /\ openres = 0
    /\ ipc = "idle"
    /\ ipc' = "loop"
    /\ UNCHANGED <<index, offsets, vmaI, numVmas, result, oobAt, traceVars, NotIndex>>

\* main: tracefile_index_frames has failed; return 1.
MainIndexFailed ==
    /\ ipc = "done" /\ result # 0
    /\ exit = -1
    /\ exit' = 1
    /\ UNCHANGED <<coalesceVars, pageVars, utilVars, traceVars, indexVars, renderVars,
                   openres, outfile, tables, histogram, report>>

\* backend_png_frames: 1 without "%s" in the path or when realloc fails,
\* 0 otherwise.
MainCallPngFrames ==
    /\ backend = "png-frames"
    /\ exit = -1
    /\ ipc = "done" /\ result = 0
    /\ ppc = "idle"
    /\ \E res \in {0, 1} :
         /\ ~HasPattern(outfile) => res = 1
         /\ pres' = res
         /\ ppc' = IF res = 0 THEN "done" ELSE "failed"
    /\ UNCHANGED <<coalesceVars, pageVars, utilVars, outVars, traceVars, indexVars,
                   agg, xres, yres, pixels, task, rendered, written, image>>

\* main, the default case of the switch: the format is not supported; return 1.
MainUnsupported ==
    /\ backend \notin {"parquet", "png", "png-frames"}
    /\ exit = -1
    /\ ipc = "done" /\ result = 0
    /\ exit' = 1
    /\ UNCHANGED <<coalesceVars, pageVars, utilVars, traceVars, indexVars, renderVars,
                   openres, outfile, tables, histogram, report>>

\* main after the switch: 1 when the backend has failed, else tracefile_close
\* and 0.
MainReturnIgnoresRes ==
    /\ pres # -1
    /\ exit = -1
    /\ exit' = 0
    /\ tracefile' = Closed
    /\ UNCHANGED <<coalesceVars, pageVars, utilVars, indexVars, renderVars, trace,
                   openres, outfile, tables, histogram, report>>

MainReturn ==
    /\ pres # -1
    /\ exit = -1
    /\ IF pres # 0
       THEN /\ exit' = 1
            /\ UNCHANGED tracefile
       ELSE /\ exit' = 0
            /\ tracefile' = Closed
    /\ UNCHANGED <<coalesceVars, pageVars, utilVars, indexVars, renderVars, trace,
                   openres, outfile, tables, histogram, report>>

\* The output formats of the command line, the file patterns and the trace
\* files of the runs of main: files in the layout the selected backend
\* decodes, and for the tabular sink also the single frame of the
\* specification's example in the layout with a name.
OutputFormats == {"parquet", "png", "png-frames", "unknown"}
OutFiles == {<<"o">>, <<"o", "%", "s">>}

\* A frame of the legacy layout whose VMA [10,12) carries the page count 3.
FrameMismatch == [sec |-> 7, usec |-> 9, vmas |-> <<Vma(10, 12, <<>>, <<1, 2, 3>>)>>]

MainFiles(format) ==
    IF format = "parquet"
    THEN {[layout |-> "legacy", frames |-> fs] : fs \in SeqsUpTo({FrameOne, FrameTwo}, MaxFrames)}
            \cup {[layout |-> "legacy", frames |-> <<FrameMismatch>>]}
            \cup {[layout |-> "canonical", frames |-> <<FrameOne>>]}
    ELSE {[layout |-> "canonical", frames |-> fs] : fs \in SeqsUpTo({FrameTwo, FrameThree}, MaxFrames)}

InitMain ==
    /\ backend \in OutputFormats
    /\ outfile \in OutFiles
    /\ trace \in MainFiles(backend)
    /\ tracefile = Closed
    /\ ranges = <<>>
    /\ named = <<>>
    /\ inserted = EmptyBag
    /\ aborted = FALSE
    /\ IdlePages /\ IdleUtil /\ IdleIndex /\ IdleRender
    /\ openres = -1
    /\ exit = -1
    /\ tables = <<>>
    /\ histogram = <<>>
    /\ report = [opened |-> FALSE, lines |-> <<>>]

NextMain ==
    \/ MainOpen
    \/ MainOpenFailed
    \/ MainIndex
    \/ NextIndex
    \/ MainIndexFailed
    \/ MainCallBackend
    \/ PngAggFrame
    \/ PngAggVma
    \/ PngReallocFail
    \/ PngPrepare
    \/ PngPrepareFail
    \/ \E i \in DOMAIN task : TaskStart(i)
    \/ \E i \in DOMAIN task : TaskVma(i)
    \/ PngRows
    \/ PngRowsFail
    \/ MainCallParquet
    \/ \E i \in DOMAIN task : ParquetStart(i)
    \/ \E i \in DOMAIN task : ParquetVma(i)
    \/ ParquetReturn
    \/ MainCallPngFrames
    \/ MainUnsupported
    \/ MainReturn

SpecMain == InitMain /\ [][NextMain]_vars


\* --------------------------------------------------------- claim C18
\* A step of main has reported failure, or the format has no backend.
StepFailed ==
    \/ openres = 1
    \/ ipc = "done" /\ result # 0
    \/ ipc = "done" /\ result = 0 /\ backend \notin {"parquet", "png", "png-frames"}
    \/ pres \notin {-1, 0}

\* Nothing of the backends has run.
NoBackendStep == ppc = "idle" /\ pres = -1 /\ task = <<>> /\ tables = <<>> /\ image = <<>>

\* C18: main returns 0 only if tracefile_open, tracefile_index_frames and the
\* selected backend have all succeeded; it returns 1 as soon as one of them
\* has reported failure or the output format is unsupported, and after a
\* failed step no later step is executed.
C18_MainExit ==
    /\ [](/\ exit \in {-1, 0, 1}
          /\ exit = 0 => (openres = 0 /\ result = 0 /\ pres = 0)
          /\ StepFailed => exit \in {-1, 1}
          /\ openres # 0 => (ipc = "idle" /\ NoBackendStep)
          /\ (result # 0 \/ backend \notin {"parquet", "png", "png-frames"}) => NoBackendStep)
    /\ [][(StepFailed /\ exit = -1) => exit' = 1]_vars

\* Witness: a run with the png format has returned 0 after the image was written.
C18_Witness ==
    /\ exit = 0 /\ openres = 0 /\ result = 0 /\ pres = 0
    /\ backend = "png" /\ image # <<>>


\* --------------------------------------------------------- claim C12
\* The rows of one VMA and of one frame: one row per page in VMA order and
\* ascending page index, from the state of the page in the VMA's bitmap.
RowsOfVma(v) ==
    [j \in 1..(v.end - v.start) |->
        [pageno |-> Add(v.start, j - 1),
         is_present |-> v.states[j] >= 1,
         is_dirty |-> v.states[j] >= 3]]

RECURSIVE RowsOfVmas(_)
RowsOfVmas(vs) == IF vs = <<>> THEN <<>> ELSE RowsOfVma(Head(vs)) \o RowsOfVmas(Tail(vs))

\* C12: the tabular sink emits, for every frame, exactly one row per page of
\* every VMA, in on-disk VMA order and ascending page index, with
\* pageno = start + page_index, is_present = (state >= 1) and
\* is_dirty = (state >= 3), state being the 2-bit value of the page in that
\* VMA's own bitmap words.
C12_TabularRows ==
    (backend = "parquet" /\ ppc = "done") =>
        \A i \in DOMAIN tables :
            tables[i].opened =>
                /\ i < Len(trace.frames)
                /\ tables[i].rows = RowsOfVmas(trace.frames[i + 1].vmas)


\* ------------------------------------------------------ the histogram sink
\* "nam" and its terminating NUL: name_len = 4.
Name4 == <<110, 97, 109, 0>>

\* A frame whose unnamed VMA has pages and precedes a named VMA, and a frame
\* in which page 4 of "name-01" has state 0.
FrameFour == [sec |-> 6, usec |-> 3,
              vmas |-> <<Vma(10, 12, <<>>, <<1, 2>>), Vma(20, 21, Name4, <<1>>)>>]
FrameFive == [sec |-> 1, usec |-> 4,
              vmas |-> <<Vma(4, 6, Name8, <<0, 1>>), Vma(40, 41, <<>>, <<1>>)>>]

\* The traces accumulated: one to MaxFrames frames of FrameTwo and
\* FrameThree, the single FrameFour, and three frames in which page 4 has
\* the states 0, 2, 3. (An empty file cannot be mapped.)
HistTraces ==
    (SeqsUpTo({FrameTwo, FrameThree}, MaxFrames) \ {<<>>})
        \cup {<<FrameFour>>, <<FrameFive, FrameTwo, FrameThree>>}

\* backend_histogram is entered with the indexed trace.
HistEnter ==
    /\ backend = "histogram"
    /\ ipc = "done" /\ result = 0
    /\ ppc = "idle"
    /\ ppc' = "agg"
    /\ agg' = [i |-> 0, index |-> 0, vma |-> 0, num_vmas |-> 0]
    /\ UNCHANGED <<coalesceVars, pageVars, utilVars, outVars, traceVars, indexVars,
                   xres, yres, pixels, task, rendered, written, image, pres>>

\* Aggregation pass: one frame of the outer loop up to the number of VMAs.
HistAggFrame ==
    /\ backend = "histogram"
    /\ ppc = "agg"
    /\ agg.i < tracefile.num_frames
    /\ LET base == tracefile.frame_offsets[agg.i + 1] IN
       \E r \in Read(tracefile.buffer, tracefile.length, base + 8, 4) :
         IF r.ok
         THEN LET n == U32Val(r.bytes) IN
              /\ agg' = [i |-> IF n = 0 THEN agg.i + 1 ELSE agg.i, index |-> base + 12,
                         vma |-> 0, num_vmas |-> n]
              /\ ppc' = IF n = 0 THEN "agg" ELSE "vmas"
         ELSE /\ ppc' = "crashed"
              /\ UNCHANGED agg
    /\ UNCHANGED <<coalesceVars, pageVars, utilVars, outVars, traceVars, indexVars,
                   xres, yres, pixels, task, rendered, written, image, pres>>

\* Aggregation pass, one iteration of the VMA loop: start, end, the name
\* length; an unnamed VMA is left by `continue` right behind the length; a
\* named VMA is inserted into ranges[name] (class range asserts
\* upper >= lower) and the cursor is advanced over its name and its words.
HistAggVma ==
    /\ backend = "histogram"
    /\ ppc = "vmas"
    /\ \E h \in Read(tracefile.buffer, tracefile.length, agg.index, 16),
          l \in Read(tracefile.buffer, tracefile.length, agg.index + 16, 4) :
         IF ~(h.ok /\ l.ok)
         THEN /\ ppc' = "crashed"
              /\ UNCHANGED <<named, aborted, agg>>
         ELSE LET vma_start == U64Val(SubSeq(h.bytes, 1, 8))
                  vma_end == U64Val(SubSeq(h.bytes, 9, 16))
                  length == U32Val(l.bytes)
                  pages == Sub(vma_end, vma_start)
                  vma == VmaRange(vma_start, vma_end)
                  last == agg.vma + 1 >= agg.num_vmas
                  Advance(idx) ==
                      /\ agg' = [i |-> IF last THEN agg.i + 1 ELSE agg.i, index |-> idx,
                                 vma |-> agg.vma + 1, num_vmas |-> agg.num_vmas]
                      /\ ppc' = IF last THEN "agg" ELSE "vmas"
              IN IF length = 0
                 THEN /\ Advance(agg.index + 20)
                      /\ UNCHANGED <<named, aborted>>
                 ELSE \E n \in Read(tracefile.buffer, tracefile.length,
                                    agg.index + 20, length - 1) :
                        IF ~n.ok
                        THEN /\ ppc' = "crashed"
                             /\ UNCHANGED <<named, aborted, agg>>
                        ELSE IF vma.upper < vma.lower
                        THEN /\ named' = SetNamed(named, n.bytes, NamedRanges(named, n.bytes))
                             /\ aborted' = TRUE
                             /\ ppc' = "aborted"
                             /\ UNCHANGED agg
                        ELSE /\ named' = HistInsert(named, n.bytes, vma)
                             /\ Advance(agg.index + 20 + length + Words(pages) * 4)
                             /\ UNCHANGED aborted
    /\ UNCHANGED <<backend, ranges, inserted, pageVars, utilVars, outVars, traceVars, indexVars,
                   xres, yres, pixels, task, rendered, written, image, pres>>

\* One histogram_data.
NoCounts == [committed |-> 0, accessed |-> 0, dirty |-> 0]

\* Between the passes: named_vmem and one zeroed counter vector per name.
HistVectors ==
    /\ backend = "histogram"
    /\ ppc = "agg"
    /\ agg.i >= tracefile.num_frames
    /\ histogram' = [n \in DOMAIN named |-> [k \in 1..TotalVmem(named[n]) |-> NoCounts]]
    /\ task' = [i \in 0..tracefile.num_frames - 1 |-> TaskEntry]
    /\ ppc' = "tasks"
    /\ UNCHANGED <<coalesceVars, pageVars, utilVars, traceVars, indexVars, openres, exit, outfile,
                   tables, report, agg, xres, yres, pixels, rendered, written, image, pres>>

\* A mutant of the loop order: any frame may be taken up at any time.
HistCurrentParallel(i) == TRUE

\* for (size_t i = 0; i < tracefile->num_frames; ++i): frame i is worked on
\* when the frames before it are finished.
HistCurrent(i) == \A k \in 0..i - 1 : task[k].pc = "done"

\* Accumulation pass: frame i up to the number of VMAs.
HistFrameStart(i) ==
    /\ backend = "histogram"
    /\ ppc = "tasks"
    /\ HistCurrent(i)
    /\ task[i].pc = "ready"
    /\ \E r \in Read(tracefile.buffer, tracefile.length, tracefile.frame_offsets[i + 1] + 8, 4) :
         IF r.ok
         THEN /\ task' = [task EXCEPT ![i] = [pc |-> IF U32Val(r.bytes) = 0 THEN "done" ELSE "vmas",
                                              index |-> 12, vma |-> 0,
                                              num_vmas |-> U32Val(r.bytes)]]
              /\ UNCHANGED ppc
         ELSE /\ ppc' = "crashed"
              /\ UNCHANGED task
    /\ UNCHANGED <<coalesceVars, pageVars, utilVars, outVars, traceVars, indexVars,
                   agg, xres, yres, pixels, rendered, written, image, pres>>

\* A mutant of the increments: the tests of committed and accessed are swapped.
HistCountSwapped(vec, offset, pages, value) ==
    [k \in 1..Len(vec) |->
        LET j == k - 1 - offset IN
        IF j >= 0 /\ j < pages
        THEN [committed |-> vec[k].committed + (IF value[j] > 1 THEN 1 ELSE 0),
              accessed |-> vec[k].accessed + (IF value[j] > 0 THEN 1 ELSE 0),
              dirty |-> vec[k].dirty + (IF value[j] > 2 THEN 1 ELSE 0)]
        ELSE vec[k]]

\* The counters after the page loop of one VMA: page j of the VMA is counted
\* at offset + j. value[j] is the decoded state of page j.
HistCount(vec, offset, pages, value) ==
    [k \in 1..Len(vec) |->
        LET j == k - 1 - offset IN
        IF j >= 0 /\ j < pages
        THEN [committed |-> vec[k].committed + (IF value[j] > 0 THEN 1 ELSE 0),
              accessed |-> vec[k].accessed + (IF value[j] > 1 THEN 1 ELSE 0),
              dirty |-> vec[k].dirty + (IF value[j] > 2 THEN 1 ELSE 0)]
        ELSE vec[k]]

\* histogram[name], creating the empty vector when the name is new.
NamedCounts(m, name) == IF name \in DOMAIN m THEN m[name] ELSE <<>>

\* Accumulation pass, one iteration of the VMA loop of frame i: an unnamed
\* VMA is left by `continue` right behind the length; for a named VMA the
\* offset scan over ranges[name] and the page loop. A store behind the
\* counter vector is undefined (the run faults, or other memory is hit).
HistFrameVma(i) ==
    /\ backend = "histogram"
    /\ ppc = "tasks"
    /\ HistCurrent(i)
    /\ task[i].pc = "vmas"
    /\ LET off == tracefile.frame_offsets[i + 1] + task[i].index
           Advance(size) ==
               task' = [task EXCEPT ![i] =
                           [pc |-> IF task[i].vma + 1 >= task[i].num_vmas
                                   THEN "done" ELSE "vmas",
                            index |-> task[i].index + size, vma |-> task[i].vma + 1,
                            num_vmas |-> task[i].num_vmas]]
       IN \E h \in Read(tracefile.buffer, tracefile.length, off, 16),
             l \in Read(tracefile.buffer, tracefile.length, off + 16, 4),
             g \in Garbage(4) \cup {<<>>}, fault \in BOOLEAN :
            IF ~(h.ok /\ l.ok)
            THEN /\ ppc' = "crashed"
                 /\ UNCHANGED <<named, histogram, task>>
            ELSE LET start == U64Val(SubSeq(h.bytes, 1, 8))
                     end == U64Val(SubSeq(h.bytes, 9, 16))
                     pages == Sub(end, start)
                     length == U32Val(l.bytes)
                     pb == off + 20 + length
                 IN IF length = 0
                    THEN /\ Advance(20)
                         /\ UNCHANGED <<ppc, named, histogram>>
                    ELSE \E n \in Read(tracefile.buffer, tracefile.length, off + 20, length - 1) :
                           LET rs == NamedRanges(named, n.bytes)
                               vec == NamedCounts(histogram, n.bytes)
                               offset == PixelOffsetLoop(rs, start, 1, 0)
                               value == [j \in 0..pages - 1 |->
                                           PageValue(PageWord(tracefile.buffer,
                                                              tracefile.length, pb,
                                                              j \div 16, g), j % 16)]
                               behind == \E j \in 0..pages - 1 :
                                            value[j] > 0 /\ offset + j >= Len(vec)
                           IN IF ~n.ok \/ (BitmapOutside(tracefile.length, pb, pages) /\ g = <<>>)
                                 \/ (behind /\ fault)
                              THEN /\ ppc' = "crashed"
                                   /\ UNCHANGED <<named, histogram, task>>
                              ELSE /\ named' = SetNamed(named, n.bytes, rs)
                                   /\ histogram' =
                                        IF pages = 0 /\ n.bytes \notin DOMAIN histogram
                                        THEN histogram
                                        ELSE SetNamed(histogram, n.bytes,
                                                      HistCount(vec, offset, pages, value))
                                   /\ Advance(20 + length + Words(pages) * 4)
                                   /\ UNCHANGED ppc
    /\ UNCHANGED <<backend, ranges, inserted, aborted, pageVars, utilVars, traceVars, indexVars,
                   openres, exit, outfile, tables, report,
                   agg, xres, yres, pixels, rendered, written, image, pres>>

\* (base + j) * arguments.page_size with the page size of sysconf.
ReportAddr(page) == page * 4096

\* The lines of the ranges i.. of one name: upper - lower lines per range,
\* the counters read at offset + j.
RECURSIVE ReportRanges(_, _, _, _)
ReportRanges(rs, vec, i, offset) ==
    IF i > Len(rs) THEN <<>>
    ELSE LET num_pages == Sub(rs[i].upper, rs[i].lower)
             base == rs[i].lower
         IN [j \in 1..num_pages |->
                [addr |-> ReportAddr(base + j - 1),
                 counts |-> IF offset + j <= Len(vec) THEN vec[offset + j] ELSE NoCounts]]
            \o ReportRanges(rs, vec, i + 1, offset + num_pages)

\* The report: per name the "VMA name" line and the lines of its ranges.
ReportLines ==
    [n \in DOMAIN named |-> ReportRanges(named[n], NamedCounts(histogram, n), 1, 0)]

\* After the accumulation pass: std::ofstream outfile(path), whose state is
\* never tested, the report, return 0.
HistReport ==
    /\ backend = "histogram"
    /\ ppc = "tasks"
    /\ AllTasksDone
    /\ \E ok \in BOOLEAN :
         report' = [opened |-> ok, lines |-> IF ok THEN ReportLines ELSE <<>>]
    /\ pres' = 0
    /\ ppc' = "done"
    /\ UNCHANGED <<coalesceVars, pageVars, utilVars, traceVars, indexVars, openres, exit, outfile,
                   tables, histogram, agg, xres, yres, pixels, task, rendered, written, image>>

\* The trace file is mapped; tracefile_index_frames and backend_histogram
\* follow.
InitHist ==
    /\ backend = "histogram"
    /\ \E fs \in HistTraces : Opened("canonical", fs, Len(WireTrace("canonical", fs)))
    /\ ranges = <<>>
    /\ named = <<>>
    /\ inserted = EmptyBag
    /\ aborted = FALSE
    /\ IndexEntry
    /\ IdlePages /\ IdleUtil /\ IdleRender /\ IdleOut

NextHist ==
    \/ NextIndex
    \/ HistEnter
    \/ HistAggFrame
    \/ HistAggVma
    \/ HistVectors
    \/ \E i \in DOMAIN task : HistFrameStart(i)
    \/ \E i \in DOMAIN task : HistFrameVma(i)
    \/ HistReport

SpecHist == InitHist /\ [][NextHist]_vars


\* --------------------------------------------------------- claim C15
\* The offset in frame f at which VMA k (from 0) starts, and for
\* k = Len(f.vmas) the size of the frame: 12 bytes of header and, per VMA,
\* 16 + 4 + L + 4 * ceil(pages * 2 / 32) bytes.
TrueVmaOffset(f, k) == 12 + Len(WireVmas(trace.layout, SubSeq(f.vmas, 1, k)))

\* Entry i (from 0) of the frame index is frame i of the trace.
TrueFrame(i) ==
    /\ i >= 0 /\ i < Len(trace.frames) /\ i < tracefile.num_frames
    /\ tracefile.frame_offsets[i + 1] = FrameStart(trace.layout, trace.frames, i)

\* The frame the aggregation pass is in, or has just left.
AggFrame == IF ppc = "vmas" THEN agg.i ELSE agg.i - 1

\* C15: decoding a frame consumes 12 bytes of header and, for every VMA in
\* on-disk order, 16 + 4 + L + 4 * ceil((end - start) * 2 / 32) bytes; the
\* bitmap words of a VMA with L = 0 are consumed too, so that every following
\* VMA is read at its true offset and the cursor ends at the end of the
\* frame, in both passes of backend_histogram and in backend_png.
C15_CursorExact ==
    (backend \in {"histogram", "png"} /\ trace.layout = "canonical") =>
        /\ (ppc \in {"agg", "vmas"} /\ TrueFrame(AggFrame)) =>
              agg.index = tracefile.frame_offsets[AggFrame + 1]
                             + TrueVmaOffset(trace.frames[AggFrame + 1], agg.vma)
        /\ \A i \in DOMAIN task :
              (task[i].pc \in {"vmas", "done"} /\ TrueFrame(i)) =>
                  task[i].index = TrueVmaOffset(trace.frames[i + 1], task[i].vma)


\* --------------------------------------------------------- claim C13
\* The name of a named VMA as std::string holds it: without the final NUL.
NameOf(v) == SubSeq(v.name, 1, Len(v.name) - 1)

\* The named VMAs of frame f that hold address a under name n.
Holding(f, n, a) ==
    {k \in 1..Len(f.vmas) :
        /\ f.vmas[k].name # <<>> /\ NameOf(f.vmas[k]) = n
        /\ f.vmas[k].start <= a /\ a < f.vmas[k].end}

\* The state of address a of region n in frame f; 0 when no VMA holds it.
StateAt(f, n, a) ==
    IF Holding(f, n, a) = {} THEN 0
    ELSE LET k == CHOOSE k \in Holding(f, n, a) : TRUE
         IN f.vmas[k].states[a - f.vmas[k].start + 1]

\* The names of the trace and the addresses of a name.
TraceNames ==
    UNION {{NameOf(trace.frames[i].vmas[k]) :
               k \in {k \in 1..Len(trace.frames[i].vmas) : trace.frames[i].vmas[k].name # <<>>}} :
           i \in 1..Len(trace.frames)}

AddressesOf(n) ==
    {a \in 0..Word - 1 : \E i \in 1..Len(trace.frames) : Holding(trace.frames[i], n, a) # {}}

\* Each address occurs in at most one VMA per frame per name.
OncePerFrame ==
    \A i \in 1..Len(trace.frames) : \A n \in TraceNames : \A a \in AddressesOf(n) :
        Cardinality(Holding(trace.frames[i], n, a)) <= 1

\* The number of frames in which address a of region n has a state above t.
FramesAbove(n, a, t) ==
    Cardinality({i \in 1..Len(trace.frames) : StateAt(trace.frames[i], n, a) > t})

\* C13: after the accumulation pass, for every named region and every
\* address a of it, the counters at the coordinate of a are committed = the
\* number of frames where a's state > 0, accessed = the number where it is
\* > 1, dirty = the number where it is > 2 (each address in at most one VMA
\* per frame per name); states 0, 2, 3 over three frames give 2, 2, 1.
C13_Counters ==
    (backend = "histogram" /\ ppc = "done" /\ OncePerFrame) =>
        \A n \in TraceNames : \A a \in AddressesOf(n) :
            /\ n \in DOMAIN named /\ n \in DOMAIN histogram
            /\ PixelOffset(named[n], a) < Len(histogram[n])
            /\ histogram[n][PixelOffset(named[n], a) + 1] =
                  [committed |-> FramesAbove(n, a, 0), accessed |-> FramesAbove(n, a, 1),
                   dirty |-> FramesAbove(n, a, 2)]


\* --------------------------------------------------------- claim C14
\* The addresses of the coalesced ranges of a region, in order.
RECURSIVE RangeAddresses(_, _)
RangeAddresses(rs, i) ==
    IF i > Len(rs) THEN <<>>
    ELSE [j \in 1..(rs[i].upper - rs[i].lower + 1) |-> rs[i].lower + j - 1]
            \o RangeAddresses(rs, i + 1)

\* C14: the report contains, for each named region, one line for every
\* address of every coalesced range of the region (upper - lower + 1 lines
\* per range), and the line of address a shows the three counters
\* accumulated at the coordinate of a.
C14_ReportLines ==
    (backend = "histogram" /\ ppc = "done" /\ report.opened) =>
        /\ DOMAIN report.lines = DOMAIN named
        /\ \A n \in DOMAIN named :
              LET addrs == RangeAddresses(named[n], 1) IN
              /\ Len(report.lines[n]) = Len(addrs)
              /\ \A k \in 1..Len(addrs) :
                    /\ report.lines[n][k].addr = ReportAddr(addrs[k])
                    /\ report.lines[n][k].counts =
                          histogram[n][PixelOffset(named[n], addrs[k]) + 1]


\* --------------------------------------------------------- claim C16
\* The frames whose iteration of the accumulation loop has begun and is not
\* finished.
HistActive == {i \in DOMAIN task : task[i].pc = "vmas"}

\* C16: the counters of backend_histogram are never updated by two frames
\* concurrently: the accumulation is one sequential loop in frame order, a
\* frame is begun only when every frame before it is finished, so that at
\* most one frame is inside the loop body and at most one frame can take the
\* next step.
C16_Sequential ==
    backend = "histogram" =>
        /\ \A i, k \in DOMAIN task :
              (i < k /\ task[k].pc # "ready") => task[i].pc = "done"
        /\ Cardinality(HistActive) <= 1
        /\ \A i \in HistActive : \A k \in DOMAIN task : k > i => task[k].pc = "ready"

\* Witness: the second frame is being accumulated after the first has
\* finished and left its counts.
C16_Witness ==
    /\ backend = "histogram" /\ ppc = "tasks"
    /\ Len(trace.frames) >= 2
    /\ task[0].pc = "done" /\ task[1].pc = "vmas" /\ task[1].vma = 1
    /\ \E n \in DOMAIN histogram : \E k \in 1..Len(histogram[n]) : histogram[n][k].committed = 2


\* --------------------------------------------------------- claim C17
\* An output file could not be opened or written: the report file of
\* backend_histogram, a Parquet file of write_frame (the exception leaves the
\* parallel region), the PNG file of backend_png.
OutputFailed ==
    \/ backend = "histogram" /\ ppc = "done" /\ ~report.opened
    \/ backend = "parquet" /\ ppc = "aborted"
    \/ backend = "png" /\ ppc = "failed"

\* C17: a failure of the output collaborator is fatal and surfaced: whenever
\* an output file cannot be opened or written the backend returns a nonzero
\* result and the run ends with exit code 1; no backend returns 0 after an
\* output failure.
C17_OutputFailureSurfaced ==
    OutputFailed => (pres \notin {-1, 0} /\ exit \in {-1, 1})


\* --------------------------------------------------------- claim C25
\* The addresses of the VMAs handed to the coalescing insert under `name`
\* ("" for backend_png). backend_histogram leaves the whole-address-space
\* range [0, SIZE_MAX] out before the insert (continue), so it is not inserted.
InsertedAddresses(name) ==
    UNION {{a \in 0..SizeMax : /\ VmaRange(v.start, v.end).lower <= a
                               /\ a <= VmaRange(v.start, v.end).upper} :
           v \in {w \in BagToSet(inserted) :
                    /\ w.name = name
                    /\ (name = "" \/ VmaRange(w.start, w.end) # Range(0, SizeMax))}}

\* C25: after any sequence of coalescing inserts of ranges with lower <= upper,
\* by backend_png and by backend_histogram per name, the set of addresses
\* covered by the index is exactly the union of the inserted ranges: nothing
\* inserted is lost, nothing outside every inserted range is covered.
C25_CoverageIsUnion ==
    AllProper =>
        /\ backend = "png" => Covered(ranges) = InsertedAddresses("")
        /\ \A n \in DOMAIN named : Covered(named[n]) = InsertedAddresses(n)

\* Witness: [1,4] (VMA (1,5)) has bridged the entries [0,1] and [4,4] (VMAs
\* (0,2) and (4,5)) of backend_png: one range [0,4] is left.
C25_Witness ==
    /\ backend = "png"
    /\ inserted = SetToBag({[name |-> "", start |-> 0, end |-> 2],
                            [name |-> "", start |-> 4, end |-> 5],
                            [name |-> "", start |-> 1, end |-> 5]})
    /\ ranges = <<Range(0, 4)>>
    /\ Covered(ranges) = 0..4


\* --------------------------------------------------------- claim C26
\* The VMAs (start, pages) that the write_frame call of frame i is about to
\* render: what its next iteration reads at its cursor.
NextVmaOf(i) ==
    {[start |-> U64Val(SubSeq(h.bytes, 1, 8)),
      pages |-> Sub(U64Val(SubSeq(h.bytes, 9, 16)), U64Val(SubSeq(h.bytes, 1, 8)))] :
        h \in {r \in Read(tracefile.buffer, tracefile.length,
                          tracefile.frame_offsets[i + 1] + task[i].index, 16) : r.ok}}

\* The page loop of write_frame would take the branch "pixel position out of
\* range" for a page of the VMA v.
OutOfRange(v) == \E j \in 0..v.pages - 1 : Add(PixelOffset(ranges, v.start), j) >= xres

\* C26: when backend_png renders the frames its index was built from (every
\* frame lies inside the buffer, so both passes read the same bytes) and every
\* VMA it read has start < end, no write_frame call can take the branch "pixel
\* position out of range": for every frame and every VMA about to be rendered,
\* pixel_offset + j < width = total_vmem for every page j.
C26_PixelInRange ==
    (backend = "png" /\ ppc = "tasks" /\ oobAt = -1 /\ AllNonEmpty) =>
        \A i \in DOMAIN task :
            task[i].pc = "vmas" => \A v \in NextVmaOf(i) : ~OutOfRange(v)

\* Witness: two frames have been rendered into an index of two ranges, and a
\* page was stored at the last pixel of a row (pixel_offset + j = width - 1).
C26_Witness ==
    /\ backend = "png"
    /\ ppc = "tasks"
    /\ oobAt = -1
    /\ AllNonEmpty
    /\ AllTasksDone
    /\ Len(trace.frames) = 2
    /\ Len(ranges) = 2
    /\ \E w \in written : w.pixel = xres - 1


\* --------------------------------------------------------- claim C27
\* committed >= accessed >= dirty at every position of every region.
CountersOrdered ==
    \A n \in DOMAIN histogram :
        \A k \in 1..Len(histogram[n]) :
            /\ histogram[n][k].committed >= histogram[n][k].accessed
            /\ histogram[n][k].accessed >= histogram[n][k].dirty

\* No counter of an existing position is lowered (or removed) by a step.
CountersGrow ==
    \A n \in DOMAIN histogram :
        /\ n \in DOMAIN histogram'
        /\ Len(histogram'[n]) = Len(histogram[n])
        /\ \A k \in 1..Len(histogram[n]) :
             /\ histogram'[n][k].committed >= histogram[n][k].committed
             /\ histogram'[n][k].accessed >= histogram[n][k].accessed
             /\ histogram'[n][k].dirty >= histogram[n][k].dirty

\* C27: at every position of every region's histogram, after any number of
\* accumulated frames and VMAs, committed >= accessed >= dirty, and no step of
\* the accumulation lowers a counter.
C27_CountersMonotone == []CountersOrdered /\ [][CountersGrow]_vars

\* Witness: all frames of a trace of several frames have been accumulated,
\* and a position holds committed = 2 > accessed = 1 = dirty.
C27_Witness ==
    /\ backend = "histogram"
    /\ ppc = "tasks"
    /\ Len(trace.frames) >= 2
    /\ AllTasksDone
    /\ \E n \in DOMAIN histogram : \E k \in 1..Len(histogram[n]) :
         histogram[n][k] = [committed |-> 2, accessed |-> 1, dirty |-> 1]


\* --------------------------------------------------------- claim C21
\* The VMAs inserted under `name`, in every order they can have been inserted in.
InsertedUnder(name) ==
    BagPerms([v \in {w \in BagToSet(inserted) : w.name = name} |-> inserted[v]])

\* A standalone index: the insert of backend_histogram run on one name alone.
RECURSIVE StandaloneIndex(_, _, _)
StandaloneIndex(rs, name, seq) ==
    IF seq = <<>> THEN rs
    ELSE StandaloneIndex(HistInsert([n \in {name} |-> rs], name,
                                    VmaRange(seq[1].start, seq[1].end))[name],
                         name, Tail(seq))

\* The sequence of every name is what a standalone index holds after the
\* VMAs of that name alone.
NamesStandalone ==
    \A n \in DOMAIN named :
        \A p \in InsertedUnder(n) : named[n] = StandaloneIndex(<<>>, n, p)

\* A step changes the sequence of at most one name, the name of the VMA that
\* was inserted, and removes no name.
OnlyOwnName ==
    /\ DOMAIN named \subseteq DOMAIN named'
    /\ \A a, b \in DOMAIN named' :
         (NamedRanges(named, a) # named'[a] /\ NamedRanges(named, b) # named'[b]) => a = b
    /\ \A v \in BagToSet(inserted') :
         CopiesIn(v, inserted') > CopiesIn(v, inserted) =>
            \A n \in DOMAIN named' : NamedRanges(named, n) # named'[n] => n = v.name

\* C21: in backend_histogram the coalescing insert is isolated per region
\* name: inserting a VMA named A changes only the range sequence stored under
\* A, and the sequence under every name is the one a standalone index holds
\* after the VMAs of that name alone, in the same order.
C21_PerNameIsolation == []NamesStandalone /\ [][OnlyOwnName]_vars

\* Witness: both names hold a range, and the two indexes differ.
C21_Witness ==
    /\ backend = "histogram"
    /\ ~aborted
    /\ DOMAIN named = HistNames
    /\ \A n \in HistNames : Len(named[n]) = 1
    /\ named["A"] # named["B"]


\* --------------------------------------------------------- claim C23
\* The explicit page count of a VMA of the legacy layout disagrees with
\* end - start.
Mismatched(v) == Len(v.states) # Sub(v.end, v.start)

\* The pages and the record sizes of the VMAs of a frame, derived from
\* end - start.
RECURSIVE DerivedPages(_)
DerivedPages(vs) ==
    IF vs = <<>> THEN 0 ELSE Sub(Head(vs).end, Head(vs).start) + DerivedPages(Tail(vs))

RECURSIVE DerivedSize(_)
DerivedSize(vs) ==
    IF vs = <<>> THEN 0
    ELSE 20 + 4 * Words(Sub(Head(vs).end, Head(vs).start)) + DerivedSize(Tail(vs))

\* The write_frame call of frame i has decoded all VMAs of a frame of the
\* legacy layout that holds a VMA with a disagreeing page count.
DecodedMismatch(i) ==
    /\ backend = "parquet"
    /\ trace.layout = "legacy"
    /\ ppc \in {"tasks", "done"}
    /\ i < Len(trace.frames)
    /\ task[i].pc = "done"
    /\ tables[i].opened
    /\ \E k \in 1..Len(trace.frames[i + 1].vmas) : Mismatched(trace.frames[i + 1].vmas[k])

\* C23: when the explicit page count of a VMA (legacy layout) disagrees with
\* end - start, the decoder logs a warning, does not abort, and decodes the
\* VMA with the derived value end - start, both for the number of pages
\* decoded and for the bitmap words skipped.
C23_MismatchUsesDerived ==
    \A i \in DOMAIN tables :
        DecodedMismatch(i) =>
            /\ tables[i].warned >= 1
            /\ Len(tables[i].rows) = DerivedPages(trace.frames[i + 1].vmas)
            /\ task[i].index = 12 + DerivedSize(trace.frames[i + 1].vmas)

\* --------------------------------------------------------- claim C22
\* C22: the frame tasks of the tabular sink write to different output units:
\* the output paths of any two distinct frames of the trace are different.
C22_DistinctOutputs ==
    backend = "parquet" =>
        \A i, j \in DOMAIN tables :
            (i # j /\ tables[i].opened /\ tables[j].opened)
                => tables[i].path # tables[j].path

\* --------------------------------------------------------- claim C29
\* C29: the bytes write_frame stores into outfile_buf, the formatted path and
\* its terminating NUL, are never more than the bytes allocated for it.
C29_PathFitsBuffer ==
    \A i \in DOMAIN tables : tables[i].stored <= tables[i].alloc


\* ------------------------------------------- the per-VMA size field
\* Values of the 32-bit size field of a VMA record, as their four bytes: small
\* counts, counts around 2^31 and counts up to 2^32 - 1.
SizeFields == {<<x, 0, 0, y>> : x \in {0, 1, 16, 17, 240}, y \in {0, 1, 127, 128, 255}}

\* A file of one frame with one VMA record [16,32) whose size field is b,
\* followed by k words.
SizeFieldFile(b, k) ==
    U32LE(1) \o U32LE(0) \o U32LE(1) \o U64LE(16) \o U64LE(32) \o b \o ZeroBytes(4 * k)

\* tracefile_open has mapped such a file; tracefile_index_frames is entered.
InitSizeField ==
    /\ \E b \in SizeFields, k \in 0..2 :
         /\ trace = [layout |-> "raw", frames |-> <<>>]
         /\ tracefile = [buffer |-> SizeFieldFile(b, k), length |-> Len(SizeFieldFile(b, k)),
                         frame_offsets |-> <<>>, num_frames |-> 0]
    /\ IndexEntry
    /\ IdleCoalesce /\ IdlePages /\ IdleUtil /\ IdleRender /\ IdleOut

SpecSizeField == InitSizeField /\ [][NextIndex]_vars

\* --------------------------------------------------------- claim C24
\* 4 * ceil(pages * 2 / 32) for the size field b, without wraparound.
ExactBitmapBytes(b) == 4 * ((b[3] + 256 * b[4]) * 4096 + (b[1] + 256 * b[2] + 15) \div 16)

\* The indexer steps over a VMA record whose size field lies inside the buffer.
StepsOverVma ==
    /\ ipc = "vmas"
    /\ InBounds(tracefile.length, index + 16, 4)
    /\ vmaI' = vmaI + 1

\* C24: for every value of the 32-bit size field read by
\* tracefile_index_frames, the step over the VMA record advances the cursor by
\* 16 + 4 bytes and exactly 4 * ceil(pages * 2 / 32) bytes, the word count
\* computed without wraparound modulo 2^32 (or indexing fails).
C24_NoWordCountWrap ==
    [][StepsOverVma =>
          index' = index + 20 + ExactBitmapBytes(SubSeq(tracefile.buffer, index + 17, index + 20))]_vars


\* --------------------------------------------------------- claim C28
\* The indexer has ended: it has returned, or the run has faulted.
IndexEnded == ipc \in {"done", "crashed"}

\* A step of the indexer never moves the cursor back, and a step that records
\* a frame (an iteration of the outer loop) moves it on by at least 12 bytes,
\* unless the run faults in it.
CursorAdvances ==
    /\ index' >= index
    /\ (Len(offsets') > Len(offsets) /\ ipc' # "crashed") => index' >= index + 12

\* C28: tracefile_index_frames terminates on every finite buffer, whatever
\* its content: every iteration of the outer loop advances the cursor by at
\* least 12 bytes, the inner loop is bounded by the VMA count it read, and the
\* loop is left once the cursor is at or beyond the buffer length.
C28_IndexerTerminates ==
    /\ <>IndexEnded
    /\ [][CursorAdvances]_vars
    /\ [](vmaI <= numVmas)
    /\ []((ipc = "done" /\ result = 0) => index >= tracefile.length)

\* Witness: the indexer has returned 0 on a buffer it has misread: two
\* frames were recorded, a read went past the end of the buffer, and the
\* cursor is beyond the length.
C28_Witness ==
    /\ ipc = "done"
    /\ result = 0
    /\ tracefile.num_frames >= 2
    /\ oobAt # -1
    /\ index > tracefile.length


\* ------------------------------------------------------ format_size_string
\* A size_t s is held by its digits to the base 1024, lowest first: five
\* digits, the fifth being s / 1024^4.
SizeDigits == {0, 1, 1023}
Sizes == {<<a, b, c, d, e>> : a \in SizeDigits, b \in SizeDigits, c \in SizeDigits,
                              d \in SizeDigits, e \in 0..MaxSizeTop}

\* s % 1024 and s / 1024.
Mod1024(s) == s[1]
Div1024(s) == Tail(s) \o <<0>>

\* static const char *units[] = { "Bytes", "KiB", "MiB", "GiB" };
units == <<"Bytes", "KiB", "MiB", "GiB">>

\* while (unit < 4 && !(s % 1024)) { unit++; s /= 1024; }
RECURSIVE UnitLoop(_, _)
UnitLoop(s, unit) ==
    IF unit < 4 /\ Mod1024(s) = 0
    THEN UnitLoop(Div1024(s), unit + 1)
    ELSE [s |-> s, unit |-> unit]

\* units[unit]: an index behind the table reads whatever pointer follows it;
\* printing it with %s faults or prints other bytes.
UnitName(unit) == IF unit < Len(units) THEN {units[unit + 1]} ELSE {"(fault)", "(other)"}

\* A caller hands a size to format_size_string (first call: buffer = NULL).
InitUtil ==
    /\ \E s \in Sizes :
         sizestr = [pc |-> "called", s |-> s, unit |-> 0, value |-> s, suffix |-> "",
                    ret |-> "none"]
    /\ IdleCoalesce /\ IdlePages /\ IdleTrace /\ IdleIndex /\ IdleRender /\ IdleOut

\* format_size_string: the loop, the first snprintf (n >= buflen = 0), realloc
\* and the second snprintf; NULL when realloc fails.
FormatSizeString ==
    /\ sizestr.pc = "called"
    /\ LET r == UnitLoop(sizestr.s, 0) IN
       \E name \in UnitName(r.unit), ok \in BOOLEAN :
          sizestr' = [pc |-> IF name = "(fault)" THEN "crashed" ELSE "returned",
                      s |-> sizestr.s, unit |-> r.unit, value |-> r.s,
                      suffix |-> IF name = "(fault)" THEN "" ELSE name,
                      ret |-> IF name = "(fault)" THEN "none"
                              ELSE IF ok THEN "buffer" ELSE "NULL"]
    /\ UNCHANGED <<coalesceVars, pageVars, outVars, traceVars, indexVars, renderVars>>

NextUtil == FormatSizeString

SpecUtil == InitUtil /\ [][NextUtil]_vars

\* --------------------------------------------------------- claim C30
\* value * 1024^unit, in digits to the base 1024.
Times1024(value, unit) == [i \in 1..Len(value) |-> IF i <= unit THEN 0 ELSE value[i - unit]]

\* C30: for every size s, 0 and the multiples of 1024^4 included,
\* format_size_string selects a unit index inside the 4-element units table
\* and the printed value times 1024^unit is s.
C30_UnitInTable ==
    sizestr.pc \in {"returned", "crashed"} =>
        /\ sizestr.unit \in 0..(Len(units) - 1)
        /\ Times1024(sizestr.value, sizestr.unit) = sizestr.s

====
